---- MODULE Spec2Model ----
(***************************************************************************)
(* netsim-in-a-box: the native 'tc' rule compiler (V4 handlers).           *)
(*                                                                         *)
(* The kernel's traffic-control state of each device is the only state the *)
(* program keeps.  A request handler (setup = Apply, reset = Reset) runs   *)
(* its external commands one at a time; every command is one step, so the  *)
(* intermediate kernel states of a handler are states of the model.        *)
(***************************************************************************)
EXTENDS Integers, Sequences, FiniteSets, TLC

(* ---------------------------------------------------------------------- *)
(* Bounds                                                                  *)
(* ---------------------------------------------------------------------- *)
\* number of external commands the environment may fail for a reason of
\* its own (lost privilege, resource shortage, killed tool) in one run
MaxFaults == 2

(* ---------------------------------------------------------------------- *)
(* Inputs                                                                  *)
(* ---------------------------------------------------------------------- *)
\* interface names a request may carry: none, a device that exists, a
\* device that does not exist
IfaceNames == {"", "eth0", "eth9"}
DirectionNames == {"", "outgoing", "incoming"}
\* the optional fields a request is driven with: <<rate, delay, loss>>
OptionVals == {<<"", "", "">>, <<"5000", "", "">>, <<"", "100", "1">>,
               <<"5000", "100", "1">>}

\* os.Getenv("API_LISTEN") with the colons trimmed
ApiPort == "2023"

\* the redirect device of the incoming direction
IfbDev == "ifb0"

\* the devices of the host: two real interfaces and the redirect device
Devices == {"eth0", "eth1", IfbDev}

VARIABLES
    isDarwin,   \* runtime.GOOS == "darwin", fixed at process start
    hasIFB,     \* preflight: kernel module 'ifb' loaded, fixed at start
    kern,       \* kernel tc state of every device
    ifbUp,      \* link state of ifb0
    op,         \* per handler: "none", "setup", "reset"
    opts,       \* per handler: the V4NetworkOptions of the request
    pc,         \* per handler: "idle", "cleanup", "add", "done"
    idx,        \* per handler: number of commands of the phase already run
    err,        \* per handler: the error the handler returns (NoErr = nil)
    cmdlog,     \* per handler: commands executed so far, with their output
    kern0,      \* per handler: kernel state when the request arrived
    last,       \* the request completed before the current one
    faults,     \* commands failed by the environment so far
    ctxDone,    \* per handler: the request context is cancelled
    main,       \* the main goroutine: where doMain is, and its sweep
    host,       \* what the process finds on its host: environment
                \* variables, binaries, kernel modules, interfaces
    raw,        \* the raw command endpoint: its request and its response
    inventory,  \* the inventory endpoint: its response
    v2          \* the tcset/tcdel endpoints: op: "none", "setup", "reset";
                \* opts: the query parameters; exec: the commands executed;
                \* exit, out: status and combined output of the command;
                \* err: the error returned, "" for nil; status: the status
                \* of the response, 0 before it

vars == <<isDarwin, hasIFB, kern, ifbUp, op, opts, pc, idx, err, cmdlog,
          kern0, last, faults, ctxDone, main, host, raw, inventory, v2>>

\* the goroutines that serve requests
Procs == {1, 2}

\* the handler of a client that sends one request after the other
Serial == {1}

(* ---------------------------------------------------------------------- *)
(* V4NetworkOptions                                                        *)
(* ---------------------------------------------------------------------- *)
V4NetworkOptions(iface, dir, rate, delay, jitter, dcorr, distr, loss, lcorr, corrupt, dup, reorder) ==
    [Iface |-> iface, Direction |-> dir, ApiPort |-> ApiPort, Rate |-> rate,
     Delay |-> delay, Jitter |-> jitter, DelayCorrelation |-> dcorr,
     Distribution |-> distr, Loss |-> loss, LossCorrelation |-> lcorr,
     Corrupt |-> corrupt, Duplicate |-> dup, Reorder |-> reorder]

NoOpts == V4NetworkOptions("", "", "", "", "", "", "", "", "", "", "", "")

\* the requests the setup endpoint is driven with
SetupRequests ==
    { V4NetworkOptions(i, d, o[1], o[2], "", "", "", o[3], "", "", "", "") :
        i \in IfaceNames, d \in DirectionNames, o \in OptionVals }

(* ---------------------------------------------------------------------- *)
(* Kernel traffic-control state of one device                              *)
(* ---------------------------------------------------------------------- *)
\* root:    the tokens of the root qdisc ("htb default 11"), <<>> if none
\* classes: the classes of the root qdisc
\* leaves:  the qdiscs attached below a class
\* ingress: the ingress qdisc ffff: is present
\* filters: the filters of the device, in the order they were added
CleanDev ==
    [root |-> <<>>, classes |-> {}, leaves |-> {}, ingress |-> FALSE,
     filters |-> <<>>]

CleanKern == [d \in Devices |-> CleanDev]

DevExists(d) == d \in Devices /\ (d = IfbDev => hasIFB)

(* ---------------------------------------------------------------------- *)
(* Output of the external tools                                            *)
(* ---------------------------------------------------------------------- *)
OutNoDevice(d) == "Cannot find device \"" \o d \o "\""
OutExists == "RTNETLINK answers: File exists"
OutNoEnt == "RTNETLINK answers: No such file or directory"
OutZeroHandle == "Error: Cannot delete qdisc with handle of zero."
OutNoQdisc == "Error: Cannot find specified qdisc on specified device."
OutNoParent == "Error: Parent Qdisc doesn't exists."
\* the output of a command the environment failed
OutFault == "RTNETLINK answers: Operation not permitted"

\* strings.Contains
Contains(s, pat) ==
    \E i \in 1..(Len(s) - Len(pat) + 1) : SubSeq(s, i, i + Len(pat) - 1) = pat

(* ---------------------------------------------------------------------- *)
(* Reading a command line                                                  *)
(* ---------------------------------------------------------------------- *)
\* position of the first token equal to key, 0 if there is none
IndexOf(cmd, key) ==
    IF \E i \in 1..Len(cmd) : cmd[i] = key
    THEN CHOOSE i \in 1..Len(cmd) :
             cmd[i] = key /\ \A j \in 1..(i - 1) : cmd[j] # key
    ELSE 0

\* the token that follows key, "" if there is none
ArgAfter(cmd, key) ==
    LET i == IndexOf(cmd, key)
    IN  IF i = 0 \/ i = Len(cmd) THEN "" ELSE cmd[i + 1]

\* the tokens from position i on
TailFrom(cmd, i) == SubSeq(cmd, i, Len(cmd))

(* ---------------------------------------------------------------------- *)
(* What the kernel does with one command                                   *)
(*                                                                         *)
(* Each operator takes the state ds of the device the command names and    *)
(* yields [out, ds]: the tool's output ("" = exit status 0) and the        *)
(* device's state afterwards.                                              *)
(* ---------------------------------------------------------------------- *)
Done(ds) == [out |-> "", ds |-> ds]
Refused(out, ds) == [out |-> out, ds |-> ds]

\* the filters of ds that hang off parent
FiltersOf(ds, parent) == SelectSeq(ds.filters, LAMBDA f : f.parent = parent)
FiltersNotOf(ds, parent) == SelectSeq(ds.filters, LAMBDA f : f.parent # parent)

\* tc qdisc del dev D root: the root qdisc goes with its classes, their
\* qdiscs and its filters
QdiscDelRoot(ds) ==
    IF ds.root = <<>> THEN Refused(OutZeroHandle, ds)
    ELSE Done([ds EXCEPT !.root = <<>>, !.classes = {}, !.leaves = {},
                         !.filters = FiltersNotOf(ds, "1:")])

\* tc qdisc del dev D ingress: the ingress qdisc goes with its filters
QdiscDelIngress(ds) ==
    IF ~ds.ingress THEN Refused(OutNoQdisc, ds)
    ELSE Done([ds EXCEPT !.ingress = FALSE,
                         !.filters = FiltersNotOf(ds, "ffff:")])

\* tc qdisc add dev D ingress
QdiscAddIngress(ds) ==
    IF ds.ingress THEN Refused(OutExists, ds)
    ELSE Done([ds EXCEPT !.ingress = TRUE])

\* tc qdisc add dev D root handle 1: htb default 11
QdiscAddRoot(ds, cmd) ==
    IF ds.root # <<>> THEN Refused(OutExists, ds)
    ELSE Done([ds EXCEPT !.root = TailFrom(cmd, IndexOf(cmd, "handle"))])

\* tc class add dev D parent 1: classid C htb rate R
ClassAdd(ds, cmd) ==
    LET id == ArgAfter(cmd, "classid")
    IN  IF ds.root = <<>> THEN Refused(OutNoEnt, ds)
        ELSE IF \E c \in ds.classes : c.classid = id THEN Refused(OutExists, ds)
        ELSE Done([ds EXCEPT !.classes =
                 @ \cup {[classid |-> id, rate |-> ArgAfter(cmd, "rate")]}])

\* tc qdisc add dev D parent C handle H netem ARGS
QdiscAddLeaf(ds, cmd) ==
    LET parent == ArgAfter(cmd, "parent")
        h == IndexOf(cmd, "handle")
    IN  IF ~\E c \in ds.classes : c.classid = parent THEN Refused(OutNoEnt, ds)
        ELSE IF \E q \in ds.leaves : q.parent = parent THEN Refused(OutExists, ds)
        ELSE Done([ds EXCEPT !.leaves =
                 @ \cup {[parent |-> parent, handle |-> cmd[h + 1],
                          kind |-> cmd[h + 2], args |-> TailFrom(cmd, h + 3)]}])

\* tc filter add dev D [protocol P] parent Q [prio N] u32 match SEL...
\*    flowid C | action mirred egress redirect dev D2
FilterAdd(ds, cmd) ==
    LET parent == ArgAfter(cmd, "parent")
        m == IndexOf(cmd, "match")
        f == IndexOf(cmd, "flowid")
        a == IndexOf(cmd, "action")
        t == IF f # 0 THEN f ELSE a
        present == IF parent = "ffff:" THEN ds.ingress ELSE ds.root # <<>>
    IN  IF ~present THEN Refused(OutNoParent, ds)
        ELSE Done([ds EXCEPT !.filters = Append(@,
                 [parent |-> parent,
                  protocol |-> ArgAfter(cmd, "protocol"),
                  prio |-> ArgAfter(cmd, "prio"),
                  sel |-> SubSeq(cmd, m + 1, t - 1),
                  flowid |-> ArgAfter(cmd, "flowid"),
                  redirect |-> IF a # 0 THEN ArgAfter(TailFrom(cmd, a), "dev")
                               ELSE ""])])

\* a tc command on the state of the device it names
TcOnDevice(ds, cmd) ==
    IF cmd[2] = "qdisc" /\ cmd[3] = "del" /\ cmd[6] = "root" THEN QdiscDelRoot(ds)
    ELSE IF cmd[2] = "qdisc" /\ cmd[3] = "del" THEN QdiscDelIngress(ds)
    ELSE IF cmd[2] = "qdisc" /\ cmd[6] = "ingress" THEN QdiscAddIngress(ds)
    ELSE IF cmd[2] = "qdisc" /\ cmd[6] = "root" THEN QdiscAddRoot(ds, cmd)
    ELSE IF cmd[2] = "qdisc" THEN QdiscAddLeaf(ds, cmd)
    ELSE IF cmd[2] = "class" THEN ClassAdd(ds, cmd)
    ELSE FilterAdd(ds, cmd)

\* the error of a command whose context is done: exec.Cmd.Start returns
\* ctx.Err() and there is no output, so runCommand takes err.Error()
OutCancelled == "context canceled"

\* a variant of Started that starts the tool whatever the context
Started_Always(ctx) == TRUE

\* exec.Cmd.Start starts the tool only while the context is not done
Started(ctx) == ~ctx

\* exec.CommandContext(ctx, name, args...).CombinedOutput(): the tool's
\* output and the kernel state (k: tc state, up: ifb0 link state) after it.
\* ctx: the context is done.  With fault the environment fails the command
\* and the kernel is untouched.
CombinedOutput(ctx, k, up, cmd, fault) ==
    LET d == ArgAfter(cmd, "dev")
    IN  IF ~Started(ctx) THEN [out |-> OutCancelled, kern |-> k, up |-> up]
        ELSE IF fault THEN [out |-> OutFault, kern |-> k, up |-> up]
        ELSE IF ~DevExists(d) THEN [out |-> OutNoDevice(d), kern |-> k, up |-> up]
        ELSE IF cmd[1] = "ip" THEN [out |-> "", kern |-> k, up |-> TRUE]
        ELSE LET r == TcOnDevice(k[d], cmd)
             IN  [out |-> r.out, kern |-> [k EXCEPT ![d] = r.ds], up |-> up]

(* ---------------------------------------------------------------------- *)
(* Command helpers                                                         *)
(* ---------------------------------------------------------------------- *)
\* nil
NoErr == [stage |-> "", cmd |-> <<>>, out |-> ""]

\* the outputs runCommand does not report as an error
BenignOutput(errStr) ==
    \/ Contains(errStr, "No such file or directory")
    \/ Contains(errStr, "Cannot find specified qdisc")
    \/ Contains(errStr, "Cannot find device")
    \/ Contains(errStr, "Cannot delete qdisc with handle of zero")

\* runCommand: [err, out, kern, up]; err is nil or carries the command line
\* and the tool's output
runCommand(ctx, k, up, cmd, fault) ==
    LET r == CombinedOutput(ctx, k, up, cmd, fault)
        e == IF r.out = "" \/ BenignOutput(r.out) THEN NoErr
             ELSE [stage |-> "", cmd |-> cmd, out |-> r.out]
    IN  [err |-> e, out |-> r.out, kern |-> r.kern, up |-> r.up]

\* fmt.Errorf("V4: <stage>: %w", err)
Wrap(stage, e) == [e EXCEPT !.stage = stage]

(* ---------------------------------------------------------------------- *)
(* cleanupSingleInterface                                                  *)
(* ---------------------------------------------------------------------- *)
\* a variant of CleanupCmds that leaves the root qdisc of the interface
\* where it is
CleanupCmds_IngressOnly(iface) ==
    << <<"tc", "qdisc", "del", "dev", iface, "ingress">> >>
    \o (IF hasIFB THEN << <<"tc", "qdisc", "del", "dev", IfbDev, "root">> >>
        ELSE <<>>)

\* the delete commands of cleanupSingleInterface, in order
CleanupCmds(iface) ==
    << <<"tc", "qdisc", "del", "dev", iface, "root">>,
       <<"tc", "qdisc", "del", "dev", iface, "ingress">> >>
    \o (IF hasIFB THEN << <<"tc", "qdisc", "del", "dev", IfbDev, "root">> >>
        ELSE <<>>)

\* a variant of CleanupErr that hands the error of a delete to the caller
CleanupErr_Strict(e) == e

\* what cleanupSingleInterface does with the error of a delete command: it
\* is logged and dropped, the function goes on and returns nil
CleanupErr(e) == NoErr

(* ---------------------------------------------------------------------- *)
(* V4NetworkOptions.Execute                                                *)
(* ---------------------------------------------------------------------- *)
ErrIfaceRequired == [stage |-> "V4: 'iface' is required", cmd |-> <<>>, out |-> ""]
ErrDirectionRequired == [stage |-> "V4: 'direction' is required", cmd |-> <<>>, out |-> ""]
ErrNoIFB == [stage |-> "V4: 'ifb' module not loaded on host. 'incoming' rules cannot be applied", cmd |-> <<>>, out |-> ""]

\* a variant of apiFilterPortCmd that matches the source port in both
\* directions
apiFilterPortCmd_Sport(v) == "sport"

effectiveIface(v) == IF v.Direction = "incoming" THEN IfbDev ELSE v.Iface
apiFilterPortCmd(v) == IF v.Direction = "incoming" THEN "dport" ELSE "sport"

\* the rate of the "slow" class
rateLimit(v) == IF v.Rate # "" THEN v.Rate \o "kbit" ELSE "10gbit"

\* the tokens of the delay clause
DelayArgs(v) ==
    IF v.Delay = "" THEN <<>>
    ELSE <<"delay", v.Delay \o "ms">>
         \o (IF v.Jitter = "" THEN <<>>
             ELSE << (IF v.Jitter = "0" /\ v.Distribution # "" THEN "1"
                      ELSE v.Jitter) \o "ms" >>
                  \o (IF v.DelayCorrelation = "" THEN <<>>
                      ELSE <<v.DelayCorrelation \o "%">>))
         \o (IF v.Distribution = "" THEN <<>>
             ELSE <<"distribution", v.Distribution>>)

\* the tokens of the loss clause
LossArgs(v) ==
    IF v.Loss = "" THEN <<>>
    ELSE <<"loss", v.Loss \o "%">>
         \o (IF v.LossCorrelation = "" THEN <<>>
             ELSE <<"correlation", v.LossCorrelation \o "%">>)

\* a variant of NetemRules with the loss clause before the delay clause
NetemRules_LossFirst(v) ==
    LossArgs(v) \o DelayArgs(v)
    \o (IF v.Corrupt = "" THEN <<>> ELSE <<"corrupt", v.Corrupt \o "%">>)
    \o (IF v.Duplicate = "" THEN <<>> ELSE <<"duplicate", v.Duplicate \o "%">>)
    \o (IF v.Reorder = "" THEN <<>> ELSE <<"reorder", v.Reorder \o "%">>)

\* the rule tokens appended to netemArgs
NetemRules(v) ==
    DelayArgs(v) \o LossArgs(v)
    \o (IF v.Corrupt = "" THEN <<>> ELSE <<"corrupt", v.Corrupt \o "%">>)
    \o (IF v.Duplicate = "" THEN <<>> ELSE <<"duplicate", v.Duplicate \o "%">>)
    \o (IF v.Reorder = "" THEN <<>> ELSE <<"reorder", v.Reorder \o "%">>)

\* a variant of hasNetemRules that counts the dependent fields too
hasNetemRules_AnyField(v) ==
    \/ v.Delay # "" \/ v.Jitter # "" \/ v.DelayCorrelation # ""
    \/ v.Distribution # "" \/ v.Loss # "" \/ v.LossCorrelation # ""
    \/ v.Corrupt # "" \/ v.Duplicate # "" \/ v.Reorder # ""

hasNetemRules(v) ==
    v.Delay # "" \/ v.Loss # "" \/ v.Corrupt # "" \/ v.Duplicate # "" \/ v.Reorder # ""

netemArgs(v) ==
    <<"tc", "qdisc", "add", "dev", effectiveIface(v), "parent", "1:11",
      "handle", "10:", "netem">> \o NetemRules(v)

Op(stage, cmd) == [stage |-> stage, cmd |-> cmd]

\* the redirect commands of the incoming direction
IncomingOps(v) ==
    << Op("V4: failed to bring up 'ifb0'",
          <<"ip", "link", "set", "dev", IfbDev, "up">>),
       Op("V4: failed to add ingress qdisc on '" \o v.Iface \o "'",
          <<"tc", "qdisc", "add", "dev", v.Iface, "ingress">>),
       Op("V4: failed to add mirred filter on '" \o v.Iface \o "'",
          <<"tc", "filter", "add", "dev", v.Iface, "parent", "ffff:",
            "protocol", "all", "u32", "match", "u32", "0", "0",
            "action", "mirred", "egress", "redirect", "dev", IfbDev>>) >>

\* the fixed htb tree on the effective interface
TreeOps(v) ==
    << Op("V4: failed to add root htb qdisc",
          <<"tc", "qdisc", "add", "dev", effectiveIface(v), "root",
            "handle", "1:", "htb", "default", "11">>),
       Op("V4: failed to add 'fast' htb class",
          <<"tc", "class", "add", "dev", effectiveIface(v), "parent", "1:",
            "classid", "1:10", "htb", "rate", "10gbit">>),
       Op("V4: failed to add 'slow' htb class",
          <<"tc", "class", "add", "dev", effectiveIface(v), "parent", "1:",
            "classid", "1:11", "htb", "rate", rateLimit(v)>>) >>

NetemOps(v) ==
    IF hasNetemRules(v)
    THEN << Op("V4: failed to add netem qdisc", netemArgs(v)) >>
    ELSE <<>>

FilterOps(v) ==
    << Op("V4: failed to add 'fast' API filter",
          <<"tc", "filter", "add", "dev", effectiveIface(v), "protocol", "ip",
            "parent", "1:", "prio", "1", "u32", "match", "ip",
            apiFilterPortCmd(v), v.ApiPort, "0xffff", "flowid", "1:10">>),
       Op("V4: failed to add default 'slow' filter",
          <<"tc", "filter", "add", "dev", effectiveIface(v), "protocol", "all",
            "parent", "1:", "prio", "2", "u32", "match", "u32", "0", "0",
            "flowid", "1:11">>) >>

\* a variant of AddOps that adds the filters before the netem qdisc
AddOps_FiltersFirst(v) ==
    (IF v.Direction = "incoming" THEN IncomingOps(v) ELSE <<>>)
    \o TreeOps(v) \o FilterOps(v) \o NetemOps(v)

\* the commands Execute runs after the cleanup, in order, each with the
\* message of the error returned when it fails
AddOps(v) ==
    (IF v.Direction = "incoming" THEN IncomingOps(v) ELSE <<>>)
    \o TreeOps(v) \o NetemOps(v) \o FilterOps(v)

(* ---------------------------------------------------------------------- *)
(* The handlers                                                            *)
(* ---------------------------------------------------------------------- *)
\* how a request ended: "ok" (nil), "rejected" (an error before any
\* command), "aborted" (the error of a command)
Outcome(e) == IF e = NoErr THEN "ok" ELSE IF e.cmd = <<>> THEN "rejected" ELSE "aborted"

\* what is remembered of the request completed before the current one: a
\* reset that returned nil, a setup that aborted, or anything else
NoLast == [kind |-> "other", Iface |-> ""]

Remember(kind, v, e) ==
    IF kind = "reset" /\ Outcome(e) = "ok" THEN [kind |-> "reset", Iface |-> v.Iface]
    ELSE IF kind = "setup" /\ Outcome(e) = "aborted" THEN [kind |-> "aborted", Iface |-> v.Iface]
    ELSE NoLast

\* doMain before the shutdown signal: the server accepts requests.
\* pc: where doMain is; inv: the result of the inventory ("none" before
\* it); ifaces: the interfaces of the sweep; i: interfaces of the sweep
\* done; j: delete commands run on the current one; log: the commands of
\* the sweep run so far; listen: the goroutine of ListenAndServe ("starting",
\* "ok" once the port is bound, "failed" when it returned an error that was
\* logged, "closed" when it returned http.ErrServerClosed)
Serving ==
    [pc |-> "serving", inv |-> "none", ifaces |-> <<>>, i |-> 0, j |-> 0, log |-> <<>>,
     listen |-> "ok"]

\* the preflight checks of runPreflightChecks, in order, and the required
\* ones
PreflightChecks ==
    <<"Root Permission", "tcpdump", "tc (iproute2)", "tcset (tcconfig)",
      "tcdel (tcconfig)", "tcshow (tcconfig)", "Kernel Module 'ifb'",
      "Kernel Module 'sch_htb'", "Kernel Module 'sch_netem'">>

Required == {PreflightChecks[i] : i \in 1..Len(PreflightChecks)} \ {"Kernel Module 'ifb'"}

\* a host: gw, fw: the values of DEFAULT_GATEWAY_MODE and of
\* RECONFIGURE_FIREWALL; ufw: exec.LookPath finds ufw; pass: the preflight
\* checks whose command succeeds; wan: the device of the default route,
\* "" if none; osFail: net.Interfaces fails; os: the interfaces of the OS
Host(gw, fw, ufw, pass, wan, osFail, os) ==
    [gw |-> gw, fw |-> fw, ufw |-> ufw, pass |-> pass, wan |-> wan,
     osFail |-> osFail, os |-> os]

\* the host of a process that got to serve requests: every required check
\* passed, the ifb check as the capability flag says
ServingHost(ifb) ==
    Host("", "", FALSE, Required \cup (IF ifb THEN {"Kernel Module 'ifb'"} ELSE {}),
         "", FALSE, <<>>)

\* the raw endpoint before a request: method, body, query: the request
\* (query: its cmd parameter); cmd: the command taken from it; status: the
\* status of the response, 0 before it; exec: the argv executed
NoRaw == [method |-> "", body |-> "", query |-> "", cmd |-> "", status |-> 0, exec |-> <<>>]

\* the inventory endpoint before a request: status: the status of the
\* response, 0 before it; failed: queryIPNetInterfaces returned an error;
\* ifaces: the list it returned
NoInventory == [status |-> 0, failed |-> FALSE, ifaces |-> <<>>]

\* no request has arrived and no command has run
Idle ==
    /\ kern = CleanKern
    /\ ifbUp = FALSE
    /\ op = [p \in Procs |-> "none"]
    /\ opts = [p \in Procs |-> NoOpts]
    /\ pc = [p \in Procs |-> "idle"]
    /\ idx = [p \in Procs |-> 0]
    /\ err = [p \in Procs |-> NoErr]
    /\ cmdlog = [p \in Procs |-> <<>>]
    /\ kern0 = [p \in Procs |-> CleanKern]
    /\ last = NoLast
    /\ faults = 0
    /\ ctxDone = [p \in Procs |-> FALSE]
    /\ raw = NoRaw
    /\ inventory = NoInventory
    /\ v2 = [op |-> "none", opts |-> <<>>, exec |-> <<>>, exit |-> 0, out |-> "",
             err |-> "", status |-> 0]

Init ==
    /\ isDarwin \in BOOLEAN
    /\ hasIFB \in BOOLEAN
    /\ main = Serving
    /\ host = ServingHost(hasIFB)
    /\ Idle

\* a request arrives at handler p
Begin(p, kind, v) ==
    /\ pc[p] = "idle"
    /\ op' = [op EXCEPT ![p] = kind]
    /\ opts' = [opts EXCEPT ![p] = v]
    /\ kern0' = [kern0 EXCEPT ![p] = kern]
    /\ cmdlog' = [cmdlog EXCEPT ![p] = <<>>]
    /\ idx' = [idx EXCEPT ![p] = 0]
    /\ UNCHANGED <<v2, host, raw, inventory, isDarwin, hasIFB, kern, ifbUp, last, faults, ctxDone, main>>

\* handler p returns e
Finish(p, e) ==
    /\ pc' = [pc EXCEPT ![p] = "done"]
    /\ err' = [err EXCEPT ![p] = e]

\* a variant of handleTcSetupV4 that looks at the platform before the
\* required fields
handleTcSetupV4_PlatformFirst(p, v) ==
    /\ Begin(p, "setup", v)
    /\ IF isDarwin THEN Finish(p, NoErr)
       ELSE IF v.Iface = "" THEN Finish(p, ErrIfaceRequired)
       ELSE IF v.Direction = "" THEN Finish(p, ErrDirectionRequired)
       ELSE /\ pc' = [pc EXCEPT ![p] = "cleanup"]
            /\ err' = [err EXCEPT ![p] = NoErr]

\* handleTcSetupV4 up to the first command of Execute
handleTcSetupV4(p, v) ==
    /\ Begin(p, "setup", v)
    /\ IF v.Iface = "" THEN Finish(p, ErrIfaceRequired)
       ELSE IF v.Direction = "" THEN Finish(p, ErrDirectionRequired)
       ELSE IF isDarwin THEN Finish(p, NoErr)
       ELSE /\ pc' = [pc EXCEPT ![p] = "cleanup"]
            /\ err' = [err EXCEPT ![p] = NoErr]

ErrResetIfaceRequired == [stage |-> "V4: 'iface' is required", cmd |-> <<>>, out |-> ""]

\* a variant of handleTcResetV4 that does not look at the platform
handleTcResetV4_NoPlatform(p, iface) ==
    /\ Begin(p, "reset", [NoOpts EXCEPT !.Iface = iface])
    /\ IF iface = "" THEN Finish(p, ErrResetIfaceRequired)
       ELSE /\ pc' = [pc EXCEPT ![p] = "cleanup"]
            /\ err' = [err EXCEPT ![p] = NoErr]

\* handleTcResetV4 up to the first command of the cleanup
handleTcResetV4(p, iface) ==
    /\ Begin(p, "reset", [NoOpts EXCEPT !.Iface = iface])
    /\ IF iface = "" THEN Finish(p, ErrResetIfaceRequired)
       ELSE IF isDarwin THEN Finish(p, NoErr)
       ELSE /\ pc' = [pc EXCEPT ![p] = "cleanup"]
            /\ err' = [err EXCEPT ![p] = NoErr]

\* handler p runs cmd; r is what runCommand yields
Ran(p, cmd, r, fault) ==
    /\ kern' = r.kern
    /\ ifbUp' = r.up
    /\ cmdlog' = [cmdlog EXCEPT ![p] = Append(@, [cmd |-> cmd, out |-> r.out])]
    /\ faults' = IF fault THEN faults + 1 ELSE faults
    /\ UNCHANGED <<v2, host, raw, inventory, isDarwin, hasIFB, op, opts, kern0, last, ctxDone, main>>

\* one delete command of cleanupSingleInterface and, after the last one,
\* what its caller does with the result
cleanupSingleInterface(p, fault) ==
    /\ pc[p] = "cleanup"
    /\ fault => faults < MaxFaults
    /\ LET cmds == CleanupCmds(opts[p].Iface)
           cmd == cmds[idx[p] + 1]
           r == runCommand(ctxDone[p], kern, ifbUp, cmd, fault)
           e == CleanupErr(r.err)
       IN  /\ Ran(p, cmd, r, fault)
           /\ IF e # NoErr
              THEN /\ Finish(p, IF op[p] = "setup"
                                THEN Wrap("V4: cleanup failed before setup", e)
                                ELSE e)
                   /\ UNCHANGED idx
              ELSE IF idx[p] + 1 < Len(cmds)
              THEN /\ idx' = [idx EXCEPT ![p] = @ + 1]
                   /\ UNCHANGED <<pc, err>>
              ELSE IF op[p] = "reset"
              THEN Finish(p, NoErr) /\ UNCHANGED idx
              ELSE IF opts[p].Direction = "incoming" /\ ~hasIFB
              THEN Finish(p, ErrNoIFB) /\ UNCHANGED idx
              ELSE /\ pc' = [pc EXCEPT ![p] = "add"]
                   /\ idx' = [idx EXCEPT ![p] = 0]
                   /\ UNCHANGED err

\* a variant of Continue that goes on whatever the command returned
ContinueOnError(e) == TRUE

\* whether Execute goes on with the next command after one that returned e
Continue(e) == e = NoErr

\* one add command of Execute
Execute(p, fault) ==
    /\ pc[p] = "add"
    /\ fault => faults < MaxFaults
    /\ LET ops == AddOps(opts[p])
           o == ops[idx[p] + 1]
           r == runCommand(ctxDone[p], kern, ifbUp, o.cmd, fault)
       IN  /\ Ran(p, o.cmd, r, fault)
           /\ IF ~Continue(r.err)
              THEN Finish(p, Wrap(o.stage, r.err)) /\ UNCHANGED idx
              ELSE IF idx[p] + 1 < Len(ops)
              THEN /\ idx' = [idx EXCEPT ![p] = @ + 1]
                   /\ UNCHANGED <<pc, err>>
              ELSE Finish(p, NoErr) /\ UNCHANGED idx

\* the response is written; the handler is free for the next request
Respond(p) ==
    /\ pc[p] = "done"
    /\ last' = Remember(op[p], opts[p], err[p])
    /\ pc' = [pc EXCEPT ![p] = "idle"]
    /\ op' = [op EXCEPT ![p] = "none"]
    /\ opts' = [opts EXCEPT ![p] = NoOpts]
    /\ idx' = [idx EXCEPT ![p] = 0]
    /\ err' = [err EXCEPT ![p] = NoErr]
    /\ cmdlog' = [cmdlog EXCEPT ![p] = <<>>]
    /\ kern0' = [kern0 EXCEPT ![p] = CleanKern]
    /\ ctxDone' = [ctxDone EXCEPT ![p] = FALSE]
    /\ UNCHANGED <<v2, host, raw, inventory, isDarwin, hasIFB, kern, ifbUp, faults, main>>

Next ==
    \E p \in Serial :
        \/ \E v \in SetupRequests : handleTcSetupV4(p, v)
        \/ \E i \in IfaceNames : handleTcResetV4(p, i)
        \/ \E fault \in BOOLEAN : cleanupSingleInterface(p, fault)
        \/ \E fault \in BOOLEAN : Execute(p, fault)
        \/ Respond(p)

Spec == Init /\ [][Next]_vars

(* ---------------------------------------------------------------------- *)
(* Reading the kernel state                                                *)
(* ---------------------------------------------------------------------- *)
\* strconv of a one-digit number
Atoi(s) == CHOOSE n \in 0..9 : s = <<"0", "1", "2", "3", "4", "5", "6", "7", "8", "9">>[n + 1]

\* a u32 selector on a packet [sport, dport]
Matches(sel, pkt) ==
    IF sel[1] = "ip" /\ sel[2] = "sport" THEN pkt.sport = sel[3]
    ELSE IF sel[1] = "ip" /\ sel[2] = "dport" THEN pkt.dport = sel[3]
    ELSE TRUE

\* the class of the root qdisc of ds a packet is queued in: the flowid of
\* the matching filter of lowest prio, else the default class of the htb
Classify(ds, pkt) ==
    LET fs == FiltersOf(ds, "1:")
        hits == {i \in 1..Len(fs) : Matches(fs[i].sel, pkt)}
    IN  IF hits = {} THEN "1:" \o ArgAfter(ds.root, "default")
        ELSE LET i == CHOOSE i \in hits :
                          \A j \in hits : Atoi(fs[i].prio) <= Atoi(fs[j].prio)
             IN  fs[i].flowid

\* the control-plane traffic seen on the egress of device d: sent from the
\* API port on a real interface, sent to it on the redirect device
ControlPacket(d) ==
    IF d = IfbDev THEN [sport |-> "40000", dport |-> ApiPort]
    ELSE [sport |-> ApiPort, dport |-> "40000"]

\* the simulated class of ds carries a user rate limit or a netem qdisc
Impairs(ds) ==
    \/ \E c \in ds.classes : c.classid = "1:11" /\ c.rate # "10gbit"
    \/ \E q \in ds.leaves : q.parent = "1:11" /\ q.kind = "netem"

\* the tool exited non-zero with an output that is not a benign one
Failed(out) == out # "" /\ ~BenignOutput(out)

RECURSIVE RunAll(_, _, _)
\* the kernel state after cmds, run in order on k with no command failed
\* by the environment
RunAll(k, up, cmds) ==
    IF cmds = <<>> THEN [kern |-> k, up |-> up]
    ELSE LET r == runCommand(FALSE, k, up, Head(cmds), FALSE)
         IN  RunAll(r.kern, r.up, Tail(cmds))

\* the commands of a whole Apply of v
ApplyCmds(v) ==
    CleanupCmds(v.Iface) \o [i \in 1..Len(AddOps(v)) |-> AddOps(v)[i].cmd]

\* the topology Apply(v) produces on clean devices
CleanApply(v) == RunAll(CleanKern, FALSE, ApplyCmds(v)).kern

\* the devices a request on iface works on
TargetDevs(iface) == ({iface} \cap Devices) \cup {IfbDev}

\* an Apply of valid fields on a host with tc
RanApply(p) ==
    /\ op[p] = "setup" /\ pc[p] = "done" /\ ~isDarwin
    /\ opts[p].Iface # "" /\ opts[p].Direction # ""

(* ---------------------------------------------------------------------- *)
(* Properties                                                              *)
(* ---------------------------------------------------------------------- *)

\* C1: in every kernel state, also between the commands of an Apply and
\* after an Apply that aborted, control-plane traffic is not queued in the
\* simulated class 1:11 while that class carries a user rate limit or a
\* netem qdisc.
C1_ControlPlaneNeverImpaired ==
    \A d \in Devices :
        (kern[d].root # <<>> /\ Impairs(kern[d]))
            => Classify(kern[d], ControlPacket(d)) # "1:11"

\* C2: Apply with direction incoming and without the ifb capability
\* returns the capability error, runs no command (no delete either) and
\* leaves the kernel state as it was.
C2_IncomingWithoutIfbTouchesNothing ==
    \A p \in Procs :
        (RanApply(p) /\ opts[p].Direction = "incoming" /\ ~hasIFB)
            => /\ err[p] = ErrNoIFB
               /\ cmdlog[p] = <<>>
               /\ kern = kern0[p]

\* C3: Apply with interface and direction but neither a rate nor a netem
\* field runs no command, leaves the kernel state as it was and succeeds.
C3_NoFieldsIsNoOp ==
    \A p \in Procs :
        (/\ op[p] = "setup" /\ opts[p].Iface # "" /\ opts[p].Direction # ""
         /\ opts[p].Rate = "" /\ ~hasNetemRules(opts[p]))
            => /\ cmdlog[p] = <<>>
               /\ kern = kern0[p]
               /\ pc[p] = "done" => err[p] = NoErr

\* C4: whatever the kernel state before it, an Apply that returns success
\* leaves on the devices it works on exactly the topology the same Apply
\* produces on clean devices.
C4_KnownCleanBaseline ==
    \A p \in Procs :
        (RanApply(p) /\ err[p] = NoErr)
            => \A d \in TargetDevs(opts[p].Iface) :
                   kern[d] = CleanApply(opts[p])[d]

\* C5: a Reset that follows a Reset of the same interface returns no
\* error and leaves the kernel state as the first one left it.
C5_ResetTwice ==
    \A p \in Procs :
        (op[p] = "reset" /\ pc[p] = "done" /\ opts[p].Iface # ""
            /\ last = [kind |-> "reset", Iface |-> opts[p].Iface])
            => err[p] = NoErr /\ kern = kern0[p]

\* C6: after an Apply that aborted, the next Reset of the interface, or
\* the teardown of the next Apply on it, leaves the interface and the
\* redirect device clean.
C6_RecoveryFromPartialApply ==
    \A p \in Procs :
        (/\ last = [kind |-> "aborted", Iface |-> opts[p].Iface]
         /\ ~isDarwin
         /\ \/ op[p] = "reset" /\ pc[p] = "done"
            \/ op[p] = "setup" /\ pc[p] = "add" /\ idx[p] = 0)
            => \A d \in TargetDevs(opts[p].Iface) : kern[d] = CleanDev

\* C7: when a delete command of Reset or of the teardown of Apply fails
\* with an output that is not benign, the operation returns an error that
\* carries that command and its output.
C7_DeleteFailureIsReported ==
    \A p \in Procs :
        pc[p] = "done" =>
            \A i \in 1..Len(cmdlog[p]) :
                (cmdlog[p][i].cmd[3] = "del" /\ Failed(cmdlog[p][i].out))
                    => /\ err[p].cmd = cmdlog[p][i].cmd
                       /\ err[p].out = cmdlog[p][i].out

\* the add commands of Apply run so far are the first ones of its plan,
\* in plan order; one that failed is the last one run, and the error
\* returned carries its stage, its command line and the tool's output
C8_InPlanOrder ==
    \A p \in Procs :
        (op[p] = "setup" /\ pc[p] \in {"add", "done"} /\ cmdlog[p] # <<>>)
            => LET n == Len(CleanupCmds(opts[p].Iface))
                   ops == AddOps(opts[p])
                   k == Len(cmdlog[p]) - n
               IN  /\ 0 <= k /\ k <= Len(ops)
                   /\ \A i \in 1..k :
                        /\ cmdlog[p][n + i].cmd = ops[i].cmd
                        /\ Failed(cmdlog[p][n + i].out)
                             => /\ i = k
                                /\ pc[p] = "done"
                                /\ err[p] = [stage |-> ops[i].stage,
                                             cmd |-> ops[i].cmd,
                                             out |-> cmdlog[p][n + i].out]

\* the step in which Apply aborts, and every step after it, leaves the
\* kernel state as the commands run before left it
C8_NoRollback ==
    \A p \in Procs :
        /\ (pc[p] = "add" /\ pc'[p] = "done" /\ err'[p] # NoErr)
              => kern' = kern /\ Len(cmdlog'[p]) = Len(cmdlog[p]) + 1
        /\ pc[p] = "done" => kern' = kern

\* C8: the add commands of Apply run in plan order; the first one that
\* fails with an output that is not benign ends the sequence, nothing is
\* rolled back, and the error names the stage and carries the output.
C8_AbortOnFirstFailure == [][C8_InPlanOrder' /\ C8_NoRollback]_vars

\* an Apply aborted in the middle of its plan, with earlier commands
\* having taken effect
C8_Witness ==
    \E p \in Procs :
        /\ RanApply(p) /\ Outcome(err[p]) = "aborted"
        /\ LET k == Len(cmdlog[p]) - Len(CleanupCmds(opts[p].Iface))
           IN  3 <= k /\ k < Len(AddOps(opts[p]))
        /\ kern[effectiveIface(opts[p])].classes # {}

\* C9: Apply with an empty interface or an empty direction returns the
\* error of the missing field, runs no command and leaves the kernel
\* state as it was, on every platform and whatever the capability.
C9_InvalidSpecFirst ==
    \A p \in Procs :
        (op[p] = "setup" /\ (opts[p].Iface = "" \/ opts[p].Direction = ""))
            => /\ pc[p] = "done"
               /\ err[p] = IF opts[p].Iface = "" THEN ErrIfaceRequired
                           ELSE ErrDirectionRequired
               /\ cmdlog[p] = <<>>
               /\ kern = kern0[p]

\* an Apply without direction rejected on a Darwin host
C9_Witness ==
    \E p \in Procs :
        /\ op[p] = "setup" /\ pc[p] = "done"
        /\ opts[p].Iface = "eth0" /\ opts[p].Direction = ""
        /\ Outcome(err[p]) = "rejected"
        /\ isDarwin

\* C10: after every Apply that returns success the root of the effective
\* device carries the control-plane filter at prio 1 to class 1:10, added
\* first, and the catch-all filter at prio 2 to class 1:11.
C10_ControlFilterBeforeCatchAll ==
    \A p \in Procs :
        (RanApply(p) /\ err[p] = NoErr)
            => /\ DevExists(effectiveIface(opts[p]))
               /\ LET fs == FiltersOf(kern[effectiveIface(opts[p])], "1:")
                  IN  /\ Len(fs) = 2
                      /\ fs[1].prio = "1" /\ fs[1].flowid = "1:10"
                      /\ fs[1].sel = <<"ip", apiFilterPortCmd(opts[p]), ApiPort, "0xffff">>
                      /\ fs[2].prio = "2" /\ fs[2].flowid = "1:11"
                      /\ fs[2].sel = <<"u32", "0", "0">>
                      /\ Atoi(fs[1].prio) < Atoi(fs[2].prio)

\* the command lines of a command log
Cmds(log) == [i \in 1..Len(log) |-> log[i].cmd]

\* position of the first command of log equal to cmd, 0 if there is none
CmdIndex(log, cmd) == IndexOf(Cmds(log), cmd)

\* C11: after every Apply that returns success the effective device has
\* the root htb qdisc with default class 11, exactly the classes 1:10 at
\* 10gbit and 1:11 at the requested rate (10gbit if none), exactly two
\* filters on the root, and a netem qdisc below 1:11 exactly when a netem
\* field was set.
C11_TopologyShape ==
    \A p \in Procs :
        (RanApply(p) /\ err[p] = NoErr)
            => /\ DevExists(effectiveIface(opts[p]))
               /\ LET ds == kern[effectiveIface(opts[p])]
                      v == opts[p]
                  IN  /\ ds.root = <<"handle", "1:", "htb", "default", "11">>
                      /\ ds.classes =
                           {[classid |-> "1:10", rate |-> "10gbit"],
                            [classid |-> "1:11",
                             rate |-> IF v.Rate # "" THEN v.Rate \o "kbit"
                                      ELSE "10gbit"]}
                      /\ Len(FiltersOf(ds, "1:")) = 2
                      /\ (\E q \in ds.leaves : q.parent = "1:11" /\ q.kind = "netem")
                           <=> (v.Delay # "" \/ v.Loss # "" \/ v.Corrupt # ""
                                \/ v.Duplicate # "" \/ v.Reorder # "")
                      /\ Cardinality(ds.leaves) <= 1

\* C12: after an incoming Apply that returns success the real interface
\* carries the ingress qdisc with one redirect-all filter to ifb0 and no
\* root htb, and the htb tree is on ifb0; after an outgoing one the real
\* interface carries the root htb and no ingress qdisc.  In the incoming
\* sequence the link-up of ifb0, the ingress add and the redirect filter
\* add come before the root qdisc add.
C12_DirectionPlacement ==
    \A p \in Procs :
        (RanApply(p) /\ err[p] = NoErr)
            => LET v == opts[p]
                   log == cmdlog[p]
                   rootAdd == CmdIndex(log, <<"tc", "qdisc", "add", "dev",
                                  effectiveIface(v), "root", "handle", "1:",
                                  "htb", "default", "11">>)
               IN  /\ DevExists(v.Iface)
                   /\ rootAdd # 0
                   /\ IF v.Direction = "incoming"
                      THEN /\ kern[v.Iface].ingress
                           /\ kern[v.Iface].root = <<>>
                           /\ Len(FiltersOf(kern[v.Iface], "ffff:")) = 1
                           /\ FiltersOf(kern[v.Iface], "ffff:")[1].sel = <<"u32", "0", "0">>
                           /\ FiltersOf(kern[v.Iface], "ffff:")[1].redirect = IfbDev
                           /\ kern[IfbDev].root # <<>>
                           /\ \A c \in {<<"ip", "link", "set", "dev", IfbDev, "up">>,
                                        <<"tc", "qdisc", "add", "dev", v.Iface, "ingress">>,
                                        <<"tc", "filter", "add", "dev", v.Iface,
                                          "parent", "ffff:", "protocol", "all",
                                          "u32", "match", "u32", "0", "0",
                                          "action", "mirred", "egress",
                                          "redirect", "dev", IfbDev>>} :
                                  CmdIndex(log, c) # 0 /\ CmdIndex(log, c) < rootAdd
                      ELSE /\ kern[v.Iface].root # <<>>
                           /\ ~kern[v.Iface].ingress

\* the outgoing request with rate, delay and loss
FullOutgoing == V4NetworkOptions("eth0", "outgoing", "5000", "100", "", "", "", "1", "", "", "", "")

\* the commands the spec gives for FullOutgoing, the deletes first
FullOutgoingPlan ==
    << <<"tc", "qdisc", "del", "dev", "eth0", "root">>,
       <<"tc", "qdisc", "del", "dev", "eth0", "ingress">> >>
    \o (IF hasIFB THEN << <<"tc", "qdisc", "del", "dev", "ifb0", "root">> >> ELSE <<>>)
    \o << <<"tc", "qdisc", "add", "dev", "eth0", "root", "handle", "1:", "htb", "default", "11">>,
          <<"tc", "class", "add", "dev", "eth0", "parent", "1:", "classid", "1:10", "htb", "rate", "10gbit">>,
          <<"tc", "class", "add", "dev", "eth0", "parent", "1:", "classid", "1:11", "htb", "rate", "5000kbit">>,
          <<"tc", "qdisc", "add", "dev", "eth0", "parent", "1:11", "handle", "10:", "netem", "delay", "100ms", "loss", "1%">>,
          <<"tc", "filter", "add", "dev", "eth0", "protocol", "ip", "parent", "1:", "prio", "1", "u32", "match", "ip", "sport", "2023", "0xffff", "flowid", "1:10">>,
          <<"tc", "filter", "add", "dev", "eth0", "protocol", "all", "parent", "1:", "prio", "2", "u32", "match", "u32", "0", "0", "flowid", "1:11">> >>

\* C13: Apply of the outgoing request with rate, delay and loss on clean
\* devices, none of its commands failed by the environment, runs exactly
\* the deletes (their absence errors tolerated), then root qdisc add,
\* class 1:10 add, class 1:11 add at 5000kbit, netem add with
\* "delay 100ms loss 1%", control filter add, catch-all filter add, each
\* add exiting with status 0, and returns success.
C13_EndToEndOrder ==
    \A p \in Procs :
        (/\ op[p] = "setup" /\ opts[p] = FullOutgoing /\ ~isDarwin
         /\ kern0[p] = CleanKern
         /\ \A i \in 1..Len(cmdlog[p]) : cmdlog[p][i].out # OutFault)
            => LET log == cmdlog[p]
                   n == Len(log)
               IN  /\ n <= Len(FullOutgoingPlan)
                   /\ Cmds(log) = SubSeq(FullOutgoingPlan, 1, n)
                   /\ \A i \in 1..n :
                        IF log[i].cmd[3] = "del" THEN ~Failed(log[i].out)
                        ELSE log[i].out = ""
                   /\ pc[p] = "done" => (err[p] = NoErr /\ n = Len(FullOutgoingPlan))
                   /\ Len(FullOutgoingPlan) - Len(CleanupCmds("eth0")) = 6

\* the Apply of C13 has returned, after nine commands on a host with ifb
C13_Witness ==
    \E p \in Procs :
        /\ op[p] = "setup" /\ pc[p] = "done" /\ opts[p] = FullOutgoing
        /\ kern0[p] = CleanKern /\ hasIFB /\ err[p] = NoErr
        /\ Len(cmdlog[p]) = 9
        /\ \A i \in 1..Len(cmdlog[p]) : cmdlog[p][i].out # OutFault

(* ---------------------------------------------------------------------- *)
(* The netem argument assembly, field by field                             *)
(*                                                                         *)
(* SpecNetem drives the setup handler with every combination of the netem  *)
(* fields on clean devices of a host with tc, no command failed by the     *)
(* environment, and resets the interface in between.                       *)
(* ---------------------------------------------------------------------- *)
NetemRequests ==
    { V4NetworkOptions("eth0", "outgoing", "", d, j, dc, ds, l, lc, c, du, r) :
        d \in {"", "50"}, j \in {"", "0", "10"}, dc \in {"", "25"},
        ds \in {"", "normal"}, l \in {"", "2"}, lc \in {"", "30"},
        c \in {"", "3"}, du \in {"", "4"}, r \in {"", "5"} }

InitNetem == Init /\ ~isDarwin

NextNetem ==
    \E p \in Serial :
        \/ kern = CleanKern /\ \E v \in NetemRequests : handleTcSetupV4(p, v)
        \/ handleTcResetV4(p, "eth0")
        \/ cleanupSingleInterface(p, FALSE)
        \/ Execute(p, FALSE)
        \/ Respond(p)

SpecNetem == InitNetem /\ [][NextNetem]_vars

\* the tokens after "netem" of the netem command in log, <<>> if the log
\* has no netem command
NetemTokens(log) ==
    LET hits == {i \in 1..Len(log) : IndexOf(log[i].cmd, "netem") # 0}
    IN  IF hits = {} THEN <<>>
        ELSE LET c == log[CHOOSE i \in hits : TRUE].cmd
             IN  TailFrom(c, IndexOf(c, "netem") + 1)

\* the log has a netem command
NetemAdded(log) == \E i \in 1..Len(log) : IndexOf(log[i].cmd, "netem") # 0

\* t is a duration token / a percentage token
IsMs(t) == Len(t) > 2 /\ SubSeq(t, Len(t) - 1, Len(t)) = "ms"
IsPct(t) == Len(t) > 1 /\ SubSeq(t, Len(t), Len(t)) = "%"

\* 1 if b, else 0
Count(b) == IF b THEN 1 ELSE 0

\* the keyword key is in toks, followed by val
Clause(toks, key, val) == IndexOf(toks, key) # 0 /\ ArgAfter(toks, key) = val

\* an Apply of a netem request has returned
NetemDone(p) == op[p] = "setup" /\ pc[p] = "done" /\ opts[p] \in NetemRequests

\* the keywords of the netem clauses, in the order of the spec
NetemKeywords == <<"delay", "distribution", "loss", "correlation", "corrupt", "duplicate", "reorder">>

\* C14: the netem tokens come in the order delay, jitter, delay
\* correlation, distribution, loss, loss correlation, corrupt, duplicate,
\* reorder; a field that is not set adds no token; delay=50, jitter=10,
\* delayCorrelation=25, loss=2 gives exactly "delay 50ms 10ms 25% loss 2%".
C14_NetemTokenOrder ==
    \A p \in Procs :
        NetemDone(p) =>
            LET v == opts[p]
                t == NetemTokens(cmdlog[p])
                jit == v.Delay # "" /\ v.Jitter # ""
            IN  \* the keywords present are in the order of the spec
                /\ \A a, b \in 1..Len(NetemKeywords) :
                      (a < b /\ IndexOf(t, NetemKeywords[a]) # 0
                             /\ IndexOf(t, NetemKeywords[b]) # 0)
                         => IndexOf(t, NetemKeywords[a]) < IndexOf(t, NetemKeywords[b])
                \* the delay clause: value, then jitter, then correlation
                /\ v.Delay # "" => (t[1] = "delay" /\ t[2] = v.Delay \o "ms")
                /\ jit => IsMs(t[3])
                /\ (jit /\ v.DelayCorrelation # "") => t[4] = v.DelayCorrelation \o "%"
                /\ (v.Delay # "" /\ v.Distribution # "")
                      => /\ Clause(t, "distribution", v.Distribution)
                         /\ IndexOf(t, "distribution")
                              = 3 + Count(jit) + Count(jit /\ v.DelayCorrelation # "")
                /\ v.Loss # "" => Clause(t, "loss", v.Loss \o "%")
                /\ (v.Loss # "" /\ v.LossCorrelation # "")
                      => /\ Clause(t, "correlation", v.LossCorrelation \o "%")
                         /\ IndexOf(t, "correlation") = IndexOf(t, "loss") + 2
                /\ v.Corrupt # "" => Clause(t, "corrupt", v.Corrupt \o "%")
                /\ v.Duplicate # "" => Clause(t, "duplicate", v.Duplicate \o "%")
                /\ v.Reorder # "" => Clause(t, "reorder", v.Reorder \o "%")
                \* a field that is not set adds no token
                /\ v.Delay = "" => IndexOf(t, "delay") = 0
                /\ v.Jitter = "" => \A i \in 3..Len(t) : ~IsMs(t[i])
                /\ v.DelayCorrelation = "" => \A i \in 1..Len(t) : t[i] # "25%"
                /\ v.Distribution = "" => IndexOf(t, "distribution") = 0
                /\ v.Loss = "" => IndexOf(t, "loss") = 0
                /\ v.LossCorrelation = "" => IndexOf(t, "correlation") = 0
                /\ v.Corrupt = "" => IndexOf(t, "corrupt") = 0
                /\ v.Duplicate = "" => IndexOf(t, "duplicate") = 0
                /\ v.Reorder = "" => IndexOf(t, "reorder") = 0
                /\ Len(t) = 2 * Count(v.Delay # "") + Count(jit)
                            + Count(jit /\ v.DelayCorrelation # "")
                            + 2 * Count(v.Delay # "" /\ v.Distribution # "")
                            + 2 * Count(v.Loss # "")
                            + 2 * Count(v.Loss # "" /\ v.LossCorrelation # "")
                            + 2 * Count(v.Corrupt # "") + 2 * Count(v.Duplicate # "")
                            + 2 * Count(v.Reorder # "")
                \* the example of the spec
                /\ v = V4NetworkOptions("eth0", "outgoing", "", "50", "10", "25", "", "2", "", "", "", "")
                      => t = <<"delay", "50ms", "10ms", "25%", "loss", "2%">>

\* the Apply of the example of C14 has returned
C14_Witness ==
    \E p \in Procs :
        /\ NetemDone(p) /\ err[p] = NoErr
        /\ opts[p] = V4NetworkOptions("eth0", "outgoing", "", "50", "10", "25", "", "2", "", "", "", "")
        /\ NetemAdded(cmdlog[p])

\* C15: when delay is set and a distribution is requested while jitter is
\* not set or zero, the netem tokens have a jitter token that is not zero
\* before the distribution keyword.
C15_JitterCoercedForDistribution ==
    \A p \in Procs :
        (/\ NetemDone(p) /\ opts[p].Delay # "" /\ opts[p].Distribution # ""
         /\ opts[p].Jitter \in {"", "0"})
            => LET t == NetemTokens(cmdlog[p])
               IN  /\ Len(t) >= 3
                   /\ IsMs(t[3]) /\ t[3] # "0ms"
                   /\ IndexOf(t, "distribution") > 3

\* C16: a jitter token only with delay set, a delay-correlation token only
\* after a jitter token, the distribution keyword only with delay set, a
\* loss-correlation token only with loss set; a dependent field without
\* its parent is dropped without an error, and dependent fields alone add
\* no netem qdisc.
C16_NetemDependencies ==
    \A p \in Procs :
        NetemDone(p) =>
            LET v == opts[p]
                t == NetemTokens(cmdlog[p])
                jitterTok == Len(t) >= 3 /\ t[1] = "delay" /\ IsMs(t[3])
            IN  /\ (\E i \in 1..Len(t) : IsMs(t[i])) => v.Delay # ""
                /\ (\E i \in 1..Len(t) : t[i] = "25%") => (jitterTok /\ t[4] = "25%")
                /\ IndexOf(t, "distribution") # 0 => v.Delay # ""
                /\ IndexOf(t, "correlation") # 0 => v.Loss # ""
                /\ err[p] = NoErr
                /\ (v.Delay = "" /\ v.Loss = "" /\ v.Corrupt = ""
                    /\ v.Duplicate = "" /\ v.Reorder = "")
                      => /\ ~NetemAdded(cmdlog[p])
                         /\ kern["eth0"].leaves = {}

\* an Apply whose only netem fields are dependent ones has returned
C16_Witness ==
    \E p \in Procs :
        /\ NetemDone(p) /\ err[p] = NoErr
        /\ opts[p] = V4NetworkOptions("eth0", "outgoing", "", "", "10", "25", "normal", "", "30", "", "", "")
        /\ kern["eth0"].root # <<>>

(* ---------------------------------------------------------------------- *)
(* Direction symmetry and the delete set of Reset                          *)
(* ---------------------------------------------------------------------- *)
\* cmd with the device replaced by ifb0 and the source-port match by a
\* destination-port match
OnRedirectDevice(cmd) ==
    [i \in 1..Len(cmd) |->
        IF i > 1 /\ cmd[i - 1] = "dev" THEN IfbDev
        ELSE IF cmd[i] = "sport" THEN "dport"
        ELSE cmd[i]]

\* the positions at which the command lines a and b differ
DiffAt(a, b) == {i \in 1..Len(a) : a[i] # b[i]}

\* C17: with the same optional fields the commands of an incoming Apply
\* are the redirect prefix (link-up of ifb0, ingress add, redirect filter
\* add) followed by the commands of the outgoing Apply with the device
\* replaced by ifb0 and, in the control filter only, sport replaced by
\* dport; the stages and the deletes are the same.
C17_DirectionSymmetry ==
    \A p \in Procs :
        (/\ op[p] = "setup" /\ pc[p] \in {"add", "done"}
         /\ opts[p].Iface # "" /\ opts[p].Direction = "incoming")
            => LET v == opts[p]
                   w == [v EXCEPT !.Direction = "outgoing"]
                   inc == AddOps(v)
                   out == AddOps(w)
                   n == Len(CleanupCmds(v.Iface))
                   k == Len(cmdlog[p]) - n
               IN  /\ Len(inc) = 3 + Len(out)
                   /\ inc[1].cmd = <<"ip", "link", "set", "dev", IfbDev, "up">>
                   /\ inc[2].cmd = <<"tc", "qdisc", "add", "dev", v.Iface, "ingress">>
                   /\ inc[3].cmd[2] = "filter" /\ ArgAfter(inc[3].cmd, "parent") = "ffff:"
                   /\ \A i \in 1..Len(out) :
                        /\ inc[3 + i].stage = out[i].stage
                        /\ Len(inc[3 + i].cmd) = Len(out[i].cmd)
                        /\ inc[3 + i].cmd = OnRedirectDevice(out[i].cmd)
                        /\ ArgAfter(out[i].cmd, "dev") = v.Iface
                        /\ ArgAfter(inc[3 + i].cmd, "dev") = IfbDev
                        /\ IF i = Len(out) - 1
                           THEN /\ DiffAt(inc[3 + i].cmd, out[i].cmd)
                                     = {5, IndexOf(out[i].cmd, "sport")}
                                /\ ArgAfter(out[i].cmd, "sport") = ApiPort
                                /\ ArgAfter(inc[3 + i].cmd, "dport") = ApiPort
                           ELSE DiffAt(inc[3 + i].cmd, out[i].cmd) = {5}
                   /\ CleanupCmds(v.Iface) = CleanupCmds(w.Iface)
                   \* what the handler ran is that sequence
                   /\ \A i \in 1..k : i > 3 =>
                        cmdlog[p][n + i].cmd = OnRedirectDevice(out[i - 3].cmd)

\* an incoming Apply with rate, delay and loss has returned success
C17_Witness ==
    \E p \in Procs :
        /\ RanApply(p) /\ err[p] = NoErr /\ hasIFB
        /\ opts[p].Iface = "eth0" /\ opts[p].Direction = "incoming"
        /\ opts[p].Rate # "" /\ opts[p].Delay # ""
        /\ Len(cmdlog[p]) = 12

\* the delete commands of a Reset of iface, as the spec lists them
ResetPlan(iface) ==
    << <<"tc", "qdisc", "del", "dev", iface, "root">>,
       <<"tc", "qdisc", "del", "dev", iface, "ingress">> >>
    \o (IF hasIFB THEN << <<"tc", "qdisc", "del", "dev", "ifb0", "root">> >> ELSE <<>>)

\* a Reset runs the deletes of its plan in order whatever the earlier ones
\* returned, and has run them all when it returns
C18_AllDeletesInOrder ==
    \A p \in Procs :
        (op[p] = "reset" /\ opts[p].Iface # "" /\ ~isDarwin)
            => LET plan == ResetPlan(opts[p].Iface)
                   n == Len(cmdlog[p])
               IN  /\ n <= Len(plan)
                   /\ Cmds(cmdlog[p]) = SubSeq(plan, 1, n)
                   /\ pc[p] = "done" => n = Len(plan)
                   /\ pc[p] = "cleanup" => n < Len(plan)

\* a step of a Reset changes nothing but the root qdisc of the interface,
\* its ingress qdisc and the root qdisc of ifb0
C18_NothingElseTouched ==
    \A p \in Procs :
        op[p] = "reset" =>
            /\ ifbUp' = ifbUp
            /\ \A d \in Devices :
                 \/ kern'[d] = kern[d]
                 \/ /\ d = opts[p].Iface
                    /\ \/ kern'[d] = [kern[d] EXCEPT !.root = <<>>, !.classes = {},
                                         !.leaves = {}, !.filters = FiltersNotOf(kern[d], "1:")]
                       \/ kern'[d] = [kern[d] EXCEPT !.ingress = FALSE,
                                         !.filters = FiltersNotOf(kern[d], "ffff:")]
                 \/ /\ d = IfbDev /\ hasIFB
                    /\ kern'[d] = [kern[d] EXCEPT !.root = <<>>, !.classes = {},
                                      !.leaves = {}, !.filters = FiltersNotOf(kern[d], "1:")]

\* C18: Reset attempts, in order, the delete of the root qdisc of the
\* interface, the delete of its ingress qdisc and, exactly when the ifb
\* capability is present, the delete of the root qdisc of ifb0, each
\* whatever the earlier ones returned, and touches nothing else.
C18_ResetOpSet == [][C18_AllDeletesInOrder' /\ C18_NothingElseTouched]_vars

\* a Reset has returned after all its deletes, the first of which failed
C18_Witness ==
    \E p \in Procs :
        /\ op[p] = "reset" /\ pc[p] = "done" /\ opts[p].Iface = "eth0" /\ hasIFB
        /\ Len(cmdlog[p]) = 3
        /\ Failed(cmdlog[p][1].out)
        /\ kern0[p]["eth0"].ingress /\ ~kern["eth0"].ingress

(* ---------------------------------------------------------------------- *)
(* Cancellation of the request context                                     *)
(*                                                                         *)
(* SpecCancel drives the handlers on a host where no command is failed by  *)
(* the environment, and lets the context of a request be cancelled while   *)
(* commands of the request remain.  A command in flight when the context   *)
(* is cancelled is killed; it counts as run, and the cancellation as       *)
(* arriving before the next one.                                           *)
(* ---------------------------------------------------------------------- *)
\* r.Context() is done: the client went away, or the timeout of the
\* request passed
Cancel(p) ==
    /\ pc[p] \in {"cleanup", "add"}
    /\ ~ctxDone[p]
    /\ ctxDone' = [ctxDone EXCEPT ![p] = TRUE]
    /\ UNCHANGED <<v2, host, raw, inventory, isDarwin, hasIFB, kern, ifbUp, op, opts, pc, idx, err,
                   cmdlog, kern0, last, faults, main>>

\* the requests SpecCancel drives the setup handler with: those that get
\* to run commands on an interface that exists
CancelRequests == {v \in SetupRequests : v.Iface = "eth0" /\ v.Direction # ""}

NextCancel ==
    \E p \in Serial :
        \/ \E v \in CancelRequests : handleTcSetupV4(p, v)
        \/ handleTcResetV4(p, "eth0")
        \/ cleanupSingleInterface(p, FALSE)
        \/ Execute(p, FALSE)
        \/ Respond(p)
        \/ Cancel(p)

SpecCancel == Init /\ [][NextCancel]_vars

\* an Apply whose context was cancelled returns an error: that of the
\* first add command it could not start, or the capability error
C19_ErrorReturned ==
    \A p \in Procs :
        (op[p] = "setup" /\ ctxDone[p] /\ pc[p] = "done")
            => /\ err[p] # NoErr
               /\ err[p].cmd # <<>> => err[p].out = OutCancelled

\* the cancellation and every step of the Apply after it leave the kernel
\* as the commands run before left it
C19_KernelKept ==
    \A p \in Procs :
        (op[p] = "setup" /\ (ctxDone[p] \/ ctxDone'[p]))
            => /\ kern' = kern
               /\ ifbUp' = ifbUp
               /\ Len(cmdlog'[p]) > Len(cmdlog[p])
                     => cmdlog'[p][Len(cmdlog'[p])].out = OutCancelled

\* C19: once the request context of an Apply is cancelled no later command
\* of the Apply changes the kernel state, the Apply returns an error, and
\* what the commands completed before did stays in the kernel.
C19_Cancellation == [][C19_ErrorReturned' /\ C19_KernelKept]_vars

\* an Apply cancelled after its classes were added has returned its
\* error, the root qdisc and the classes still on the interface
C19_Witness ==
    \E p \in Procs :
        /\ RanApply(p) /\ ctxDone[p] /\ err[p] # NoErr
        /\ err[p].out = OutCancelled
        /\ opts[p].Iface = "eth0" /\ opts[p].Direction = "outgoing"
        /\ Cardinality(kern["eth0"].classes) = 2
        /\ FiltersOf(kern["eth0"], "1:") = <<>>

(* ---------------------------------------------------------------------- *)
(* Graceful shutdown                                                       *)
(*                                                                         *)
(* SpecShutdown adds the main goroutine: the signal, the shutdown of the   *)
(* HTTP server, the sweep over the interfaces of the inventory and the     *)
(* exit.  Handlers still running when the shutdown times out go on beside  *)
(* the sweep until the process exits.                                      *)
(* ---------------------------------------------------------------------- *)
\* what queryIPNetInterfaces may return to the sweep: the names of the
\* real interfaces that are up and have an address, in the order of the OS
Inventories == {<<>>, <<"eth0">>, <<"eth0", "eth1">>, <<"eth1", "eth0">>}

\* a variant of AfterSignal that goes to the cleanup without shutting the
\* HTTP server down
AfterSignal_NoShutdown == "cleanup"

\* where doMain goes when ctx.Done() is closed
AfterSignal == "shutdown"

\* SIGINT or SIGTERM: the signal goroutine cancels the main context, doMain
\* leaves <-ctx.Done() and calls httpServer.Shutdown
setupGracefulShutdown ==
    /\ main.pc = "serving"
    /\ main' = [main EXCEPT !.pc = AfterSignal]
    /\ UNCHANGED <<v2, host, raw, inventory, isDarwin, hasIFB, kern, ifbUp, op, opts, pc, idx, err,
                   cmdlog, kern0, last, faults, ctxDone>>

\* httpServer.Shutdown(shutdownCtx) returns: nil once no request is in
\* flight, the context's error when the five seconds have passed
Shutdown(timeout) ==
    /\ main.pc = "shutdown"
    /\ timeout \/ \A p \in Procs : pc[p] = "idle"
    /\ main' = [main EXCEPT !.pc = "cleanup"]
    /\ UNCHANGED <<v2, host, raw, inventory, isDarwin, hasIFB, kern, ifbUp, op, opts, pc, idx, err,
                   cmdlog, kern0, last, faults, ctxDone>>

\* cleanupAllInterfaces up to its loop: nothing on Darwin, nothing when
\* the inventory fails, else the sweep over the interfaces it returned
cleanupAllInterfaces(ok, ifaces) ==
    /\ main.pc = "cleanup"
    /\ main' = IF isDarwin THEN [main EXCEPT !.pc = "exited"]
               ELSE IF ~ok THEN [main EXCEPT !.pc = "exited", !.inv = "error"]
               ELSE [main EXCEPT !.pc = "sweep", !.inv = "ok", !.ifaces = ifaces,
                                  !.i = 0, !.j = 0]
    /\ UNCHANGED <<v2, host, raw, inventory, isDarwin, hasIFB, kern, ifbUp, op, opts, pc, idx, err,
                   cmdlog, kern0, last, faults, ctxDone>>

\* one delete command of the sweep: cleanupSingleInterface on the current
\* interface, with the background context; its result is not looked at
\* (cmds, cmd, r, e, last_ name the one value of their set)
Sweep(fault) ==
    /\ main.pc = "sweep"
    /\ main.i < Len(main.ifaces)
    /\ fault => faults < MaxFaults
    /\ \E cmds \in {CleanupCmds(main.ifaces[main.i + 1])} :
       \E cmd \in {cmds[main.j + 1]} :
       \E r \in {runCommand(FALSE, kern, ifbUp, cmd, fault)} :
       \E e \in {CleanupErr(r.err)} :
       \E last_ \in {e # NoErr \/ main.j + 1 = Len(cmds)} :
           /\ kern' = r.kern
           /\ ifbUp' = r.up
           /\ faults' = IF fault THEN faults + 1 ELSE faults
           /\ main' = [main EXCEPT
                         !.log = Append(@, [cmd |-> cmd, out |-> r.out]),
                         !.i = IF last_ THEN @ + 1 ELSE @,
                         !.j = IF last_ THEN 0 ELSE @ + 1]
    /\ UNCHANGED <<v2, host, raw, inventory, isDarwin, hasIFB, op, opts, pc, idx, err, cmdlog, kern0,
                   last, ctxDone>>

\* the loop is over: doMain returns nil and the process exits
Exit ==
    /\ main.pc = "sweep"
    /\ main.i = Len(main.ifaces)
    /\ main' = [main EXCEPT !.pc = "exited"]
    /\ UNCHANGED <<v2, host, raw, inventory, isDarwin, hasIFB, kern, ifbUp, op, opts, pc, idx, err,
                   cmdlog, kern0, last, faults, ctxDone>>

\* the requests SpecShutdown drives the setup handler with
ShutdownRequests ==
    { V4NetworkOptions("eth0", "outgoing", "5000", "", "", "", "", "", "", "", "", ""),
      V4NetworkOptions("eth1", "incoming", "", "", "", "", "", "", "", "", "", "") }

\* the server accepts a request only until the shutdown is called; a
\* handler runs only while the process lives
NextShutdown ==
    \/ \E p \in Serial :
        \/ main.pc = "serving" /\ \E v \in ShutdownRequests : handleTcSetupV4(p, v)
        \/ main.pc = "serving" /\ handleTcResetV4(p, "eth0")
        \/ main.pc # "exited" /\ cleanupSingleInterface(p, FALSE)
        \/ main.pc # "exited" /\ Execute(p, FALSE)
        \/ main.pc # "exited" /\ Respond(p)
    \/ setupGracefulShutdown
    \/ \E timeout \in BOOLEAN : Shutdown(timeout)
    \/ \E ok \in BOOLEAN, ifaces \in Inventories : cleanupAllInterfaces(ok, ifaces)
    \/ \E fault \in BOOLEAN : Sweep(fault)
    \/ Exit

SpecShutdown == Init /\ [][NextShutdown]_vars

RECURSIVE SweepPlan(_)
\* the deletes of a sweep over ifaces: those of a Reset of each interface,
\* one interface after the other
SweepPlan(ifaces) ==
    IF ifaces = <<>> THEN <<>>
    ELSE ResetPlan(Head(ifaces)) \o SweepPlan(Tail(ifaces))

\* the sweep runs the deletes of its interfaces one after the other in
\* the order of the inventory, also after one failed, and the process
\* exits after the last one
C20_SweepInOrder ==
    /\ main.pc \in {"serving", "shutdown", "cleanup"} => main.log = <<>>
    /\ main.pc \in {"sweep", "exited"} =>
          LET n == Len(main.log)
              plan == SweepPlan(main.ifaces)
          IN  /\ n <= Len(plan)
              /\ Cmds(main.log) = SubSeq(plan, 1, n)
              /\ n = Len(SweepPlan(SubSeq(main.ifaces, 1, main.i))) + main.j
              /\ (main.pc = "exited" /\ main.inv = "ok") => n = Len(plan)

\* doMain goes from serving to the shutdown of the HTTP server, from its
\* return to the cleanup, from there to the sweep and to the exit; a
\* request is accepted only before the shutdown is called
C20_MainOrder ==
    /\ main.pc' # main.pc =>
          \/ main.pc = "serving" /\ main.pc' = "shutdown"
          \/ main.pc = "shutdown" /\ main.pc' = "cleanup"
          \/ main.pc = "cleanup" /\ main.pc' \in {"sweep", "exited"}
          \/ main.pc = "sweep" /\ main.pc' = "exited"
    /\ main.log' # main.log => main.pc = "sweep"
    /\ \A p \in Procs : (pc[p] = "idle" /\ pc'[p] # "idle") => main.pc = "serving"

\* C20: after the signal the process first shuts the HTTP server down,
\* only after that call has returned resets the interfaces of the
\* inventory one at a time in inventory order, going on after a failed
\* delete, and only then exits.
C20_ShutdownOrdering == [][C20_SweepInOrder' /\ C20_MainOrder]_vars

\* the process has exited after a sweep over two interfaces, whose first
\* delete failed, that ran beside a handler the shutdown did not wait for
C20_Witness ==
    /\ main.pc = "exited" /\ main.inv = "ok" /\ Len(main.ifaces) = 2
    /\ Failed(main.log[1].out)
    /\ Len(main.log) = Len(SweepPlan(main.ifaces))
    /\ \E p \in Procs : pc[p] # "idle"

(* ---------------------------------------------------------------------- *)
(* Two requests at a time                                                  *)
(*                                                                         *)
(* SpecConcurrent lets two handler goroutines serve Apply requests on the  *)
(* same interface of a host with tc, no command failed by the environment. *)
(* Nothing in the handlers keeps one from running between the commands of  *)
(* the other.  A round starts on clean devices; the second request of a   *)
(* round arrives while the first is in flight, or after the first has run *)
(* alone with success; the responses are written when no handler is in    *)
(* flight, and a Reset between the rounds cleans the interface.            *)
(* ---------------------------------------------------------------------- *)
ConcurrentRequests ==
    { V4NetworkOptions("eth0", "outgoing", "5000", "", "", "", "", "", "", "", "", ""),
      V4NetworkOptions("eth0", "outgoing", "", "100", "", "", "", "1", "", "", "", "") }

InitConcurrent == Init /\ ~isDarwin /\ ~hasIFB

NextConcurrent ==
    \E p \in Procs :
        \/ /\ \A q \in Procs \ {p} :
                 \/ pc[q] = "idle" /\ kern = CleanKern
                 \/ pc[q] \in {"cleanup", "add"}
                 \/ pc[q] = "done" /\ kern0[q] = CleanKern /\ err[q] = NoErr
                                   /\ kern = CleanApply(opts[q])
           /\ \E v \in ConcurrentRequests : handleTcSetupV4(p, v)
        \/ /\ \A q \in Procs : pc[q] = "idle"
           /\ handleTcResetV4(p, "eth0")
        \/ cleanupSingleInterface(p, FALSE)
        \/ Execute(p, FALSE)
        \/ /\ \A q \in Procs : pc[q] \in {"idle", "done"}
           /\ Respond(p)

SpecConcurrent == InitConcurrent /\ [][NextConcurrent]_vars

\* the Apply calls of p and q have both returned
BothReturned(p, q) ==
    /\ p # q
    /\ op[p] = "setup" /\ pc[p] = "done"
    /\ op[q] = "setup" /\ pc[q] = "done"

\* the Apply of q began on what the Apply of p, begun on clean devices and
\* returned with success, leaves when it runs alone
OneAfterTheOther(p, q) ==
    /\ kern0[p] = CleanKern /\ err[p] = NoErr
    /\ kern0[q] = CleanApply(opts[p])

\* C21: nothing keeps two Apply calls on the same interface apart.  Two
\* calls that run one after the other both succeed and leave the topology
\* of the second; so a call that failed, or a topology that neither call
\* produces alone, comes from their commands interleaving, and there is
\* such an interleaving (C21_Witness).
C21_OnlyInterleavingBreaks ==
    \A p, q \in Procs :
        (BothReturned(p, q) /\ OneAfterTheOther(p, q))
            => /\ err[q] = NoErr
               /\ kern = CleanApply(opts[q])

\* two Apply calls whose commands interleaved have both returned success,
\* and the interface carries a topology that neither produces alone
C21_Witness ==
    \E p, q \in Procs :
        /\ BothReturned(p, q)
        /\ err[p] = NoErr /\ err[q] = NoErr
        /\ kern0[p] = CleanKern /\ kern0[q] = CleanKern
        /\ kern # CleanApply(opts[p]) /\ kern # CleanApply(opts[q])
        /\ \E i \in 1..Len(cmdlog[p]) :
              cmdlog[p][i].cmd[3] = "add" /\ cmdlog[p][i].out # ""

(* ---------------------------------------------------------------------- *)
(* The interface inventory: queryIPNetInterfaces, called by the /init      *)
(* handler, over what the OS enumerates.                                   *)
(* ---------------------------------------------------------------------- *)

\* net.IP.To4: not nil for an IPv4 address
To4(ip) == Contains(ip, ".")

\* net.IP.To16: not nil for every address of 4 or 16 bytes
To16(ip) == ip # ""

\* the lists of addresses of an interface, as net.Interface.Addrs returns
\* them (the IP of each *net.IPNet)
OsAddrLists ==
    {<<>>, <<"10.0.0.1">>, <<"fe80::1">>, <<"10.0.0.1", "fe80::1">>,
     <<"fe80::1", "10.0.0.1">>, <<"10.0.0.1", "192.168.0.2">>}

\* a net.Interface: its name, its flags, its addresses, and whether
\* Addrs() fails on it
OsInterfaces ==
    [Name : {"eth0", "eth1"}, p2p : BOOLEAN, up : BOOLEAN, loopback : BOOLEAN,
     addrs : OsAddrLists, addrsFail : BOOLEAN]

\* what net.Interfaces returns: a list of interfaces of distinct names
OsEnumerations ==
    {<<>>} \cup {<<a>> : a \in OsInterfaces}
           \cup {l \in OsInterfaces \X OsInterfaces : l[1].Name # l[2].Name}

\* a variant of the flag filter that keeps loopback interfaces
Skipped_KeepLoopback(iface) == iface.p2p \/ ~iface.up

\* the flag filter of queryIPNetInterfaces: the interfaces it passes over
\* before it asks for their addresses
Skipped(iface) == iface.p2p \/ ~iface.up \/ iface.loopback

\* the TcInterface before the loop over the addresses
TcInterface(name) == [Name |-> name, IPv4 |-> "", IPv6 |-> ""]

\* the loop over the addresses (filter is nil): an IPv4 address is kept as
\* IPv4, any other as IPv6, the last of each kind wins
RECURSIVE AddrLoop(_, _)
AddrLoop(ti, addrs) ==
    IF addrs = <<>> THEN ti
    ELSE LET ip == Head(addrs)
             t1 == IF To4(ip) THEN [ti EXCEPT !.IPv4 = ip]
                   ELSE IF To16(ip) THEN [ti EXCEPT !.IPv6 = ip]
                   ELSE ti
         IN  AddrLoop(t1, Tail(addrs))

\* the loop over the interfaces, targets being the list built so far
RECURSIVE IfaceLoop(_, _)
IfaceLoop(ifaces, targets) ==
    IF ifaces = <<>> THEN [failed |-> FALSE, ifaces |-> targets]
    ELSE LET iface == Head(ifaces)
             ti == AddrLoop(TcInterface(iface.Name), iface.addrs)
         IN  IF Skipped(iface) THEN IfaceLoop(Tail(ifaces), targets)
             ELSE IF iface.addrsFail THEN [failed |-> TRUE, ifaces |-> <<>>]
             ELSE IF ti.IPv4 # "" \/ ti.IPv6 # ""
                  THEN IfaceLoop(Tail(ifaces), Append(targets, ti))
             ELSE IfaceLoop(Tail(ifaces), targets)

queryIPNetInterfaces(h) ==
    IF h.osFail THEN [failed |-> TRUE, ifaces |-> <<>>]
    ELSE IfaceLoop(h.os, <<>>)

\* the /init handler: 500 when the inventory failed or is empty, else 200
\* with the list
handleTcInit ==
    /\ inventory = NoInventory
    /\ LET r == queryIPNetInterfaces(host)
       IN  inventory' = [status |-> IF r.failed \/ Len(r.ifaces) = 0 THEN 500 ELSE 200,
                         failed |-> r.failed, ifaces |-> r.ifaces]
    /\ UNCHANGED <<v2, isDarwin, hasIFB, kern, ifbUp, op, opts, pc, idx, err, cmdlog,
                   kern0, last, faults, ctxDone, main, host, raw>>

InitInventory ==
    /\ isDarwin = FALSE
    /\ hasIFB = TRUE
    /\ main = Serving
    /\ \E fail \in BOOLEAN, os \in OsEnumerations :
          host = Host("", "", FALSE, Required \cup {"Kernel Module 'ifb'"}, "", fail, os)
    /\ Idle

NextInventory == handleTcInit

SpecInventory == InitInventory /\ [][NextInventory]_vars

\* the interfaces the inventory is to return: not point-to-point, up, not
\* loopback, with an address
Usable(iface) ==
    /\ ~iface.p2p /\ iface.up /\ ~iface.loopback
    /\ iface.addrs # <<>>

Names(l) == [i \in 1..Len(l) |-> l[i].Name]

\* the enumeration of the OS failed: of the interfaces, or of the
\* addresses of an interface the inventory asked for
EnumerationFailed ==
    \/ host.osFail
    \/ \E i \in 1..Len(host.os) : ~Skipped(host.os[i]) /\ host.os[i].addrsFail

\* C22: the list the inventory returns holds exactly the interfaces of the
\* OS that are not point-to-point, up, not loopback and with an address, in
\* the order of the OS, each with an address of its own; an interface
\* without address is left out without error; the inventory fails only
\* when the enumeration of the OS failed.
C22_InventoryFilter ==
    inventory.status # 0 =>
        /\ inventory.failed => EnumerationFailed
        /\ ~inventory.failed =>
              /\ Names(inventory.ifaces) = Names(SelectSeq(host.os, Usable))
              /\ \A i \in 1..Len(inventory.ifaces) :
                    \E k \in 1..Len(host.os) :
                       /\ host.os[k].Name = inventory.ifaces[i].Name
                       /\ \E a \in 1..Len(host.os[k].addrs) :
                             host.os[k].addrs[a] \in {inventory.ifaces[i].IPv4, inventory.ifaces[i].IPv6}

\* the OS lists two interfaces that are up, neither loopback nor
\* point-to-point: eth1, without address, then eth0 with an IPv4 and an
\* IPv6 address; the inventory returned eth0 alone, without error
C22_Witness ==
    /\ inventory.status = 200
    /\ Names(host.os) = <<"eth1", "eth0">>
    /\ \A k \in 1..2 : ~Skipped(host.os[k])
    /\ host.os[1].addrs = <<>>
    /\ inventory.ifaces = <<[Name |-> "eth0", IPv4 |-> "10.0.0.1", IPv6 |-> "fe80::1"]>>

(* ---------------------------------------------------------------------- *)
(* The raw command endpoint: handleTcRaw, one request after the other, on  *)
(* a host with tc.                                                         *)
(* ---------------------------------------------------------------------- *)

\* strings.Split(s, " "): the pieces between the spaces, one more than
\* there are spaces
RECURSIVE Split(_)
Split(s) ==
    IF \E i \in 1..Len(s) : SubSeq(s, i, i) = " "
    THEN LET i == CHOOSE i \in 1..Len(s) :
                     /\ SubSeq(s, i, i) = " "
                     /\ \A j \in 1..(i - 1) : SubSeq(s, j, j) # " "
         IN  <<SubSeq(s, 1, i - 1)>> \o Split(SubSeq(s, i + 1, Len(s)))
    ELSE <<s>>

\* a variant of the whitelist that looks for the two names inside arg0
Allowed_Contains(arg0) == Contains(arg0, "tc") \/ Contains(arg0, "ip")

\* the switch on arg0: the commands let through
Allowed(arg0) == arg0 \in {"tc", "ip"}

\* exec.CommandContext(ctx, arg0, args[1:]...).Output(): tc and ip act on
\* the kernel; any other program leaves the tc state alone.  failed: the
\* program could not be run or exited with an error
Output(k, up, argv, fault) ==
    IF argv[1] \in {"tc", "ip"}
    THEN LET r == CombinedOutput(FALSE, k, up, argv, fault)
         IN  [failed |-> r.out # "", kern |-> r.kern, up |-> r.up]
    ELSE [failed |-> fault, kern |-> k, up |-> up]

\* the commands submitted
RawCommands ==
    {"", "tc qdisc del dev eth0 root",
     "tc qdisc add dev eth0 root handle 1: htb default 11",
     "tc qdisc add dev eth0 ingress handle ffff:",
     "tc qdisc del dev eth9 root",
     "ip link set dev ifb0 up",
     " tc qdisc del dev eth0 root", "TC qdisc del dev eth0 root",
     "tcpdump -i eth0", "iptables -F", "sh -c tc", "ls"}

\* a GET carries the command in its cmd parameter, a POST in its body or,
\* with an empty body, in its cmd parameter
RawRequests ==
    [method : {"GET"}, body : {""}, query : RawCommands]
        \cup [method : {"POST"}, body : RawCommands,
              query : {"", "ls", "tc qdisc del dev eth0 root"}]

handleTcRaw(req, fault) ==
    LET cmd  == IF req.method = "POST" /\ Len(req.body) > 0 THEN req.body ELSE req.query
        args == Split(cmd)
        arg0 == args[1]
        r    == Output(kern, ifbUp, args, fault)
        resp(status, argv) ==
            [method |-> req.method, body |-> req.body, query |-> req.query,
             cmd |-> cmd, status |-> status, exec |-> argv]
    IN  /\ fault => faults < MaxFaults
        /\ IF cmd = "" \/ Len(args) = 0
           THEN raw' = resp(400, <<>>) /\ UNCHANGED <<kern, ifbUp, faults>>
           ELSE IF ~Allowed(arg0)
           THEN raw' = resp(403, <<>>) /\ UNCHANGED <<kern, ifbUp, faults>>
           ELSE /\ raw' = resp(IF r.failed THEN 500 ELSE 200, args)
                /\ kern' = r.kern
                /\ ifbUp' = r.up
                /\ faults' = IF fault THEN faults + 1 ELSE faults
        /\ UNCHANGED <<v2, isDarwin, hasIFB, op, opts, pc, idx, err, cmdlog, kern0,
                       last, ctxDone, main, host, inventory>>

InitRaw == Init /\ ~isDarwin

NextRaw == \E req \in RawRequests, fault \in BOOLEAN : handleTcRaw(req, fault)

SpecRaw == InitRaw /\ [][NextRaw]_vars

\* the command before its first space
FirstToken(s) ==
    LET n == CHOOSE n \in 0..Len(s) :
                 /\ n = Len(s) \/ SubSeq(s, n + 1, n + 1) = " "
                 /\ \A j \in 1..n : SubSeq(s, j, j) # " "
    IN  SubSeq(s, 1, n)

\* C23: the raw endpoint runs a program only if the first space-separated
\* token of the command submitted is exactly tc or ip, and the program it
\* runs is that token; every other command that is not empty is answered
\* with 403 and nothing runs.
C23_RawWhitelist ==
    /\ raw.exec # <<>> => FirstToken(raw.cmd) \in {"tc", "ip"} /\ raw.exec[1] = FirstToken(raw.cmd)
    /\ (raw.status # 0 /\ raw.cmd # "" /\ FirstToken(raw.cmd) \notin {"tc", "ip"})
          => raw.status = 403 /\ raw.exec = <<>>

\* a command that is none of the two was rejected, after an allowed
\* command had put an htb root on eth0: the root is still there
C23_Witness ==
    /\ raw.cmd = "tcpdump -i eth0"
    /\ raw.status = 403 /\ raw.exec = <<>>
    /\ kern["eth0"].root # CleanDev.root

(* ---------------------------------------------------------------------- *)
(* One direction at a time                                                 *)
(* ---------------------------------------------------------------------- *)

\* the topology of a direction is on iface: the root qdisc for outgoing,
\* the ingress qdisc for incoming
HasOutgoing(k, iface) == k[iface].root # <<>>
HasIncoming(k, iface) == k[iface].ingress

\* C24: after every Apply on an interface the interface carries at most
\* one of the outgoing and the incoming topology, and an Apply of one
\* direction that returns success has removed what the other direction
\* had put on the interface and on the redirect device.
C24_OneDirectionAtATime ==
    \A p \in Procs :
        (RanApply(p) /\ opts[p].Iface \in Devices)
            => /\ ~(HasOutgoing(kern, opts[p].Iface) /\ HasIncoming(kern, opts[p].Iface))
               /\ (err[p] = NoErr /\ opts[p].Direction = "incoming")
                     => ~HasOutgoing(kern, opts[p].Iface)
               /\ (err[p] = NoErr /\ opts[p].Direction # "incoming")
                     => ~HasIncoming(kern, opts[p].Iface)

(* ---------------------------------------------------------------------- *)
(* Success means applied                                                   *)
(* ---------------------------------------------------------------------- *)

\* C26: when an Apply returns success on a host with tc, the interface
\* exists, every command of its plan ran, no command other than the
\* deletes of the teardown was answered with an error, and the effective
\* device carries the root, the two classes and the two filters.
C26_SuccessMeansApplied ==
    \A p \in Procs :
        (RanApply(p) /\ err[p] = NoErr)
            => /\ opts[p].Iface \in Devices
               /\ Cmds(cmdlog[p]) = ApplyCmds(opts[p])
               /\ \A i \in 1..Len(cmdlog[p]) :
                     cmdlog[p][i].cmd[3] # "del" => cmdlog[p][i].out = ""
               /\ LET e == effectiveIface(opts[p])
                  IN  /\ e \in Devices
                      /\ kern[e].root # <<>>
                      /\ Cardinality(kern[e].classes) = 2
                      /\ Len(FiltersOf(kern[e], "1:")) = 2

(* ---------------------------------------------------------------------- *)
(* Two interfaces and the directions a request may name: one handler       *)
(* serves Apply and Reset requests on eth0 and eth1 of a host with tc, no  *)
(* command failed by the environment.                                      *)
(* ---------------------------------------------------------------------- *)
RealIfaces == {"eth0", "eth1"}

IsolationRequests ==
    { V4NetworkOptions(i, d, r, "", "", "", "", "", "", "", "", "") :
        i \in RealIfaces, d \in {"outgoing", "incoming", "Incoming", "both"},
        r \in {"", "5000"} }

InitIsolation == Init /\ ~isDarwin

NextIsolation ==
    \E p \in Serial :
        \/ \E v \in IsolationRequests : handleTcSetupV4(p, v)
        \/ \E i \in RealIfaces : handleTcResetV4(p, i)
        \/ cleanupSingleInterface(p, FALSE)
        \/ Execute(p, FALSE)
        \/ Respond(p)

SpecIsolation == InitIsolation /\ [][NextIsolation]_vars

\* C27: an Apply or a Reset on an interface leaves every other interface
\* as it found it: its qdiscs, classes and filters and, when the other
\* interface redirects its ingress to ifb0, the topology on ifb0.
C27_CrossInterfaceIsolation ==
    \A p \in Procs :
        (pc[p] = "done" /\ op[p] \in {"setup", "reset"} /\ opts[p].Iface \in RealIfaces)
            => \A b \in RealIfaces \ {opts[p].Iface} :
                   /\ kern[b] = kern0[p][b]
                   /\ kern0[p][b].ingress => kern[IfbDev] = kern0[p][IfbDev]

\* C29: an Apply whose direction is set to something other than outgoing
\* and incoming runs no command and returns an error.
C29_DirectionClosedEnum ==
    \A p \in Procs :
        (op[p] = "setup" /\ ~isDarwin /\ opts[p].Iface # ""
            /\ opts[p].Direction \notin {"", "outgoing", "incoming"})
            => /\ cmdlog[p] = <<>>
               /\ pc[p] = "done" => err[p] # NoErr

(* ---------------------------------------------------------------------- *)
(* Clean exit                                                              *)
(* ---------------------------------------------------------------------- *)

\* C28: when the process has exited through the graceful shutdown, no
\* device carries a root or an ingress qdisc the process created (every
\* qdisc of the model was created by an Apply of this run).
C28_CleanExit ==
    main.pc = "exited" =>
        \A d \in Devices : kern[d].root = <<>> /\ ~kern[d].ingress

(* ---------------------------------------------------------------------- *)
(* Startup: doMain from the preflight checks to the start of the HTTP      *)
(* server, on a Linux host, then one handler serving requests.             *)
(* main.i: checks run; main.j: gateway commands run; main.log: the         *)
(* commands of the startup with their result.                              *)
(* ---------------------------------------------------------------------- *)
IfbCheck == "Kernel Module 'ifb'"

\* the command of each preflight check
CheckCmd(name) ==
    CASE name = "Root Permission"         -> <<"id", "-u">>
      [] name = "tcpdump"                 -> <<"tcpdump", "--version">>
      [] name = "tc (iproute2)"           -> <<"tc", "-V">>
      [] name = "tcset (tcconfig)"        -> <<"tcset", "--version">>
      [] name = "tcdel (tcconfig)"        -> <<"tcdel", "--version">>
      [] name = "tcshow (tcconfig)"       -> <<"tcshow", "--version">>
      [] name = IfbCheck                  -> <<"grep", "^ifb", "/proc/modules">>
      [] name = "Kernel Module 'sch_htb'" -> <<"grep", "^sch_htb", "/proc/modules">>
      [] OTHER                            -> <<"grep", "^sch_netem", "/proc/modules">>

OutCheckFailed == "exit status 1"

\* doMain at its first line
Starting == [Serving EXCEPT !.pc = "preflight"]

\* the hosts the process is started on
StartupHosts ==
    { Host(gw, fw, ufw, {PreflightChecks[i] : i \in 1..Len(PreflightChecks)} \ missing, wan, FALSE, <<>>) :
        gw \in {"", "true", "false", "1"}, fw \in {"", "true", "yes"}, ufw \in BOOLEAN,
        missing \in SUBSET {"Root Permission", "tc (iproute2)", IfbCheck, "Kernel Module 'sch_netem'"},
        wan \in {"", "eth0"} }

InitStartup ==
    /\ isDarwin = FALSE
    /\ hasIFB = FALSE
    /\ main = Starting
    /\ host \in StartupHosts
    /\ Idle

\* one check of runPreflightChecks; the ifb check sets the capability flag
\* when it passes
runPreflightChecks ==
    /\ main.pc = "preflight"
    /\ main.i < Len(PreflightChecks)
    /\ LET name == PreflightChecks[main.i + 1]
           status == name \in host.pass
       IN  /\ main' = [main EXCEPT
                         !.i = @ + 1,
                         !.log = Append(@, [cmd |-> CheckCmd(name),
                                            out |-> IF status THEN "" ELSE OutCheckFailed])]
           /\ hasIFB' = IF name = IfbCheck /\ status THEN TRUE ELSE hasIFB
    /\ UNCHANGED <<v2, host, raw, inventory, isDarwin, kern, ifbUp, op, opts, pc, idx, err,
                   cmdlog, kern0, last, faults, ctxDone>>

\* a variant of the gate that asks for every check
allOk_EveryCheck(h) == \A i \in 1..Len(PreflightChecks) : PreflightChecks[i] \in h.pass

\* the result of runPreflightChecks: no required check failed
allOk(h) == \A i \in 1..Len(PreflightChecks) :
               PreflightChecks[i] \in Required => PreflightChecks[i] \in h.pass

\* a variant of the opt-in that looks for the binary only
Reconfigure_IfFound(h) == h.ufw

\* step 4 of enableGatewayMode: ufw is disabled when RECONFIGURE_FIREWALL
\* is "true" and the binary is found
Reconfigure(h) == h.fw = "true" /\ h.ufw

\* the commands of enableGatewayMode
GatewayCmds(h) ==
    << <<"sysctl", "-w", "net.ipv4.ip_forward=1">>,
       <<"ip", "route", "show", "default">>,
       <<"iptables", "-t", "nat", "-A", "POSTROUTING", "-o", h.wan, "-j", "MASQUERADE">>,
       <<"iptables", "-A", "FORWARD", "-o", h.wan, "-j", "ACCEPT">>,
       <<"iptables", "-A", "FORWARD", "-m", "state", "--state", "RELATED,ESTABLISHED", "-j", "ACCEPT">> >>
    \o (IF Reconfigure(h) THEN << <<"ufw", "disable">> >> ELSE <<>>)

\* doMain after the checks: it returns an error when a required check
\* failed, configures the gateway mode when DEFAULT_GATEWAY_MODE is "true",
\* and starts the HTTP server otherwise
doMain ==
    /\ main.pc = "preflight"
    /\ main.i = Len(PreflightChecks)
    /\ main' = [main EXCEPT !.pc = IF ~allOk(host) THEN "failed"
                                   ELSE IF host.gw = "true" THEN "gateway"
                                   ELSE "serving"]
    /\ UNCHANGED <<v2, host, raw, inventory, isDarwin, hasIFB, kern, ifbUp, op, opts, pc, idx,
                   err, cmdlog, kern0, last, faults, ctxDone>>

\* a variant of enableGatewayMode that goes on to the next command after a
\* failure
enableGatewayMode_GoOn(fault) ==
    /\ main.pc = "gateway"
    /\ fault => faults < MaxFaults
    /\ LET cmds == GatewayCmds(host)
           cmd == cmds[main.j + 1]
           out == IF fault THEN OutCheckFailed ELSE ""
       IN  main' = [main EXCEPT
                      !.log = Append(@, [cmd |-> cmd, out |-> out]),
                      !.j = @ + 1,
                      !.pc = IF main.j + 1 = Len(cmds) THEN "serving" ELSE "gateway"]
    /\ faults' = IF fault THEN faults + 1 ELSE faults
    /\ UNCHANGED <<v2, host, raw, inventory, isDarwin, hasIFB, kern, ifbUp, op, opts, pc, idx,
                   err, cmdlog, kern0, last, ctxDone>>

\* one command of enableGatewayMode: a command that fails, or a default
\* route without device, makes doMain return an error; after the last one
\* the HTTP server is started
enableGatewayMode(fault) ==
    /\ main.pc = "gateway"
    /\ fault => faults < MaxFaults
    /\ LET cmds == GatewayCmds(host)
           cmd == cmds[main.j + 1]
           out == IF fault THEN OutCheckFailed ELSE ""
           noDev == cmd[1] = "ip" /\ host.wan = ""
       IN  main' = [main EXCEPT
                      !.log = Append(@, [cmd |-> cmd, out |-> out]),
                      !.j = @ + 1,
                      !.pc = IF fault \/ noDev THEN "failed"
                             ELSE IF main.j + 1 = Len(cmds) THEN "serving"
                             ELSE "gateway"]
    /\ faults' = IF fault THEN faults + 1 ELSE faults
    /\ UNCHANGED <<v2, host, raw, inventory, isDarwin, hasIFB, kern, ifbUp, op, opts, pc, idx,
                   err, cmdlog, kern0, last, ctxDone>>

NextStartup ==
    \/ runPreflightChecks
    \/ doMain
    \/ \E fault \in BOOLEAN : enableGatewayMode(fault)
    \/ \E p \in Serial :
        \/ main.pc = "serving" /\ \E v \in ShutdownRequests : handleTcSetupV4(p, v)
        \/ main.pc = "serving" /\ handleTcResetV4(p, "eth1")
        \/ cleanupSingleInterface(p, FALSE)
        \/ Execute(p, FALSE)
        \/ Respond(p)

SpecStartup == InitStartup /\ [][NextStartup]_vars

\* the commands of the startup whose program is name
StartupRuns(name) == {i \in 1..Len(main.log) : main.log[i].cmd[1] = name}

\* C25: ufw is run only with DEFAULT_GATEWAY_MODE=true,
\* RECONFIGURE_FIREWALL=true and the ufw binary found, and then as
\* `ufw disable`; when DEFAULT_GATEWAY_MODE is not "true" the startup runs
\* no sysctl, iptables or ufw command, and no handler ever runs one.
C25_UfwOptIn ==
    /\ StartupRuns("ufw") # {} =>
          /\ host.gw = "true" /\ host.fw = "true" /\ host.ufw
          /\ \A i \in StartupRuns("ufw") : main.log[i].cmd = <<"ufw", "disable">>
    /\ host.gw # "true" =>
          StartupRuns("sysctl") \cup StartupRuns("iptables") \cup StartupRuns("ufw") = {}
    /\ \A p \in Procs : \A i \in 1..Len(cmdlog[p]) :
          cmdlog[p][i].cmd[1] \notin {"ufw", "sysctl", "iptables"}

\* the server was started after `ufw disable` had run as the last command
\* of the gateway mode
C25_Witness ==
    /\ main.pc = "serving"
    /\ main.log[Len(main.log)].cmd = <<"ufw", "disable">>
    /\ main.log[Len(main.log)].out = ""
    /\ StartupRuns("iptables") # {}

\* the checks other than the ifb check
RequiredChecks ==
    {"Root Permission", "tcpdump", "tc (iproute2)", "tcset (tcconfig)",
     "tcdel (tcconfig)", "tcshow (tcconfig)", "Kernel Module 'sch_htb'",
     "Kernel Module 'sch_netem'"}

\* the server is started, and the gateway mode configured, only when every
\* required check passed; when they all passed the startup does not fail
\* at the checks, whatever the ifb check; after the checks the capability
\* flag is true exactly when the ifb check passed
C30_Gate ==
    /\ (main.pc \in {"gateway", "serving"} \/ main.j > 0) => RequiredChecks \subseteq host.pass
    /\ (main.pc = "failed" /\ main.j = 0) => ~(RequiredChecks \subseteq host.pass)
    /\ main.pc # "preflight" => (hasIFB <=> IfbCheck \in host.pass)
    /\ \A p \in Procs : pc[p] # "idle" => main.pc = "serving"

\* the capability flag is written by the preflight checks only: never
\* once the checks are over, so never while the server accepts requests
C30_FlagWrittenBeforeServing ==
    (hasIFB' # hasIFB) => (main.pc = "preflight" /\ main'.pc = "preflight")

\* C30: the server starts only if every required preflight check passed, a
\* failed ifb check does not keep it from starting, the capability flag is
\* true exactly when the ifb check passed, and it is written before the
\* server accepts requests and never afterwards.
C30_PreflightGating == []C30_Gate /\ [][C30_FlagWrittenBeforeServing]_vars

\* the server serves a request although the ifb check failed, the flag
\* being false
C30_Witness ==
    /\ main.pc = "serving"
    /\ IfbCheck \notin host.pass /\ ~hasIFB
    /\ \E p \in Procs : pc[p] = "done" /\ op[p] = "setup"

(* ---------------------------------------------------------------------- *)
(* The platform: the handlers and the shutdown on a Darwin host and on a   *)
(* host with tc, with requests that lack a required field among them.      *)
(* ---------------------------------------------------------------------- *)
PlatformRequests ==
    ShutdownRequests \cup
    { V4NetworkOptions("", "outgoing", "5000", "", "", "", "", "", "", "", "", ""),
      V4NetworkOptions("eth0", "", "5000", "", "", "", "", "", "", "", "", "") }

NextPlatform ==
    \/ \E p \in Serial :
        \/ main.pc = "serving" /\ \E v \in PlatformRequests : handleTcSetupV4(p, v)
        \/ main.pc = "serving" /\ \E i \in {"", "eth0"} : handleTcResetV4(p, i)
        \/ main.pc # "exited" /\ cleanupSingleInterface(p, FALSE)
        \/ main.pc # "exited" /\ Execute(p, FALSE)
        \/ main.pc # "exited" /\ Respond(p)
    \/ setupGracefulShutdown
    \/ \E timeout \in BOOLEAN : Shutdown(timeout)
    \/ \E ok \in BOOLEAN, ifaces \in Inventories : cleanupAllInterfaces(ok, ifaces)
    \/ \E fault \in BOOLEAN : Sweep(fault)
    \/ Exit

SpecPlatform == Init /\ [][NextPlatform]_vars

\* C31: on a Darwin host no handler and no sweep runs a command and the
\* kernel state stays as it was; an Apply with interface and direction,
\* and a Reset with an interface, return success at once; an Apply or a
\* Reset that lacks a required field returns the error of that field; the
\* shutdown goes from the cleanup to the exit without the inventory.
C31_DarwinNoOp ==
    isDarwin =>
        /\ kern = CleanKern /\ ~ifbUp
        /\ main.log = <<>> /\ main.pc # "sweep" /\ main.inv = "none"
        /\ \A p \in Procs :
              /\ cmdlog[p] = <<>>
              /\ pc[p] \in {"idle", "done"}
              /\ op[p] = "setup" =>
                    err[p] = IF opts[p].Iface = "" THEN ErrIfaceRequired
                             ELSE IF opts[p].Direction = "" THEN ErrDirectionRequired
                             ELSE NoErr
              /\ op[p] = "reset" =>
                    err[p] = IF opts[p].Iface = "" THEN ErrResetIfaceRequired ELSE NoErr

\* on a Darwin host without the ifb capability an incoming Apply has
\* returned success and the process has exited through the shutdown
C31_Witness ==
    /\ isDarwin /\ ~hasIFB
    /\ main.pc = "exited"
    /\ \E p \in Procs :
          /\ op[p] = "setup" /\ pc[p] = "done"
          /\ opts[p].Iface = "eth1" /\ opts[p].Direction = "incoming"
          /\ err[p] = NoErr

(* ---------------------------------------------------------------------- *)
(* Termination: doMain from the start of the server goroutine to its       *)
(* return.  Every step of the shutdown is taken once it can be: Shutdown   *)
(* returns within its five seconds, the inventory returns, and every       *)
(* command of the sweep terminates.                                        *)
(* ---------------------------------------------------------------------- *)

\* doMain after `go func() { httpServer.ListenAndServe() }`
ServerStarted == [Serving EXCEPT !.listen = "starting"]

\* a variant in which doMain goes to the cleanup when the listener failed
AfterListenError_Cleanup == "cleanup"

\* where doMain is after ListenAndServe returned an error: the error is
\* logged in the goroutine and doMain still waits for the signal
AfterListenError == "serving"

\* ListenAndServe in its goroutine: it binds the port and serves, or
\* returns an error that is logged, or returns http.ErrServerClosed when
\* Shutdown was called before it
ListenAndServe(bound) ==
    /\ main.listen = "starting"
    /\ main' = IF main.pc # "serving" THEN [main EXCEPT !.listen = "closed"]
               ELSE IF bound THEN [main EXCEPT !.listen = "ok"]
               ELSE [main EXCEPT !.listen = "failed", !.pc = AfterListenError]
    /\ UNCHANGED <<v2, host, raw, inventory, isDarwin, hasIFB, kern, ifbUp, op, opts, pc, idx, err,
                   cmdlog, kern0, last, faults, ctxDone>>

\* the request the server is driven with: one Apply, on clean devices
TerminationRequests ==
    { V4NetworkOptions("eth0", "outgoing", "5000", "", "", "", "", "", "", "", "", "") }

InitTermination ==
    /\ isDarwin \in BOOLEAN
    /\ hasIFB \in BOOLEAN
    /\ main = ServerStarted
    /\ host = ServingHost(hasIFB)
    /\ Idle

NextTermination ==
    \/ \E bound \in BOOLEAN : ListenAndServe(bound)
    \/ \E p \in Serial :
        \/ /\ main.pc = "serving" /\ main.listen = "ok" /\ kern = CleanKern
           /\ \E v \in TerminationRequests : handleTcSetupV4(p, v)
        \/ main.pc # "exited" /\ cleanupSingleInterface(p, FALSE)
        \/ main.pc # "exited" /\ Execute(p, FALSE)
        \/ main.pc # "exited" /\ Respond(p)
    \/ setupGracefulShutdown
    \/ \E timeout \in BOOLEAN : Shutdown(timeout)
    \/ \E ok \in BOOLEAN, ifaces \in Inventories : cleanupAllInterfaces(ok, ifaces)
    \/ \E fault \in BOOLEAN : Sweep(fault)
    \/ Exit

\* the steps of doMain after the signal
MainStep ==
    \/ \E timeout \in BOOLEAN : Shutdown(timeout)
    \/ \E ok \in BOOLEAN, ifaces \in Inventories : cleanupAllInterfaces(ok, ifaces)
    \/ \E fault \in BOOLEAN : Sweep(fault)
    \/ Exit

SpecTermination == InitTermination /\ [][NextTermination]_vars /\ WF_vars(MainStep)

\* doMain leaves its wait only by the step of the signal, whatever became
\* of the listener, and no other step brings it past the wait; a command
\* of the sweep runs only after the signal
C32_OnlyTheSignal ==
    /\ (main.pc = "serving" /\ main'.pc # "serving") => setupGracefulShutdown
    /\ main'.pc = "exited" => main.pc \in {"cleanup", "sweep", "exited"}
    /\ main'.log # main.log => main.pc = "sweep"
    /\ main'.listen # main.listen => (main'.pc = main.pc /\ main'.log = main.log)

\* C32: once the server goroutine is started doMain returns only after the
\* signal; a failed listener is only logged, ends nothing and starts no
\* sweep; after the signal the process eventually exits.
C32_Termination ==
    /\ [][C32_OnlyTheSignal]_vars
    /\ [](main.listen = "failed" /\ main.pc = "serving" => main.log = <<>>)
    /\ (main.pc = "shutdown") ~> (main.pc = "exited")

\* the port could not be bound, the process waited, and after the signal
\* it swept an interface and exited
C32_Witness ==
    /\ main.listen = "failed"
    /\ main.pc = "exited"
    /\ main.inv = "ok" /\ main.log # <<>>

\* ---------------------------------------------------------------------
\* The gateway mode over the life of the process: startup with
\* DEFAULT_GATEWAY_MODE=true, service, graceful shutdown
\* ---------------------------------------------------------------------

\* hosts that pass every check and ask for the gateway mode
GatewayHosts ==
    { Host("true", fw, ufw, {PreflightChecks[i] : i \in 1..Len(PreflightChecks)}, wan, FALSE, <<>>) :
        fw \in {"", "true"}, ufw \in BOOLEAN, wan \in {"", "eth0"} }

InitGateway ==
    /\ isDarwin = FALSE
    /\ hasIFB = FALSE
    /\ main = Starting
    /\ host \in GatewayHosts
    /\ Idle

NextGateway ==
    \/ runPreflightChecks
    \/ doMain
    \/ \E fault \in BOOLEAN : enableGatewayMode(fault)
    \/ \E p \in Serial :
        \/ /\ main.pc = "serving" /\ kern = CleanKern
           /\ \E v \in TerminationRequests : handleTcSetupV4(p, v)
        \/ main.pc \notin {"exited", "failed"} /\ cleanupSingleInterface(p, FALSE)
        \/ main.pc \notin {"exited", "failed"} /\ Execute(p, FALSE)
        \/ main.pc \notin {"exited", "failed"} /\ Respond(p)
    \/ setupGracefulShutdown
    \/ \E timeout \in BOOLEAN : Shutdown(timeout)
    \/ \E ok \in BOOLEAN, ifaces \in Inventories : cleanupAllInterfaces(ok, ifaces)
    \/ \E fault \in BOOLEAN : Sweep(fault)
    \/ Exit

SpecGateway == InitGateway /\ [][NextGateway]_vars

\* a command that touches, or reads, what the gateway mode configures
IsGatewayCmd(e) ==
    \/ e.cmd[1] \in {"sysctl", "iptables", "ufw"}
    \/ e.cmd = <<"ip", "route", "show", "default">>

\* the commands of that kind the process has run, in order
GatewayLog == SelectSeq(main.log, IsGatewayCmd)

\* the n-th gateway command did what it was run for
Succeeded(n) ==
    /\ GatewayLog[n].out = ""
    /\ GatewayLog[n].cmd[1] = "ip" => host.wan # ""

\* the commands of the gateway mode are run in the order of the list, each
\* after the success of the one before; the one that fails is the last and
\* fails the startup; the server is started after all of them
C33_Sequence ==
    /\ Len(GatewayLog) <= Len(GatewayCmds(host))
    /\ \A n \in 1..Len(GatewayLog) :
          /\ GatewayLog[n].cmd = GatewayCmds(host)[n]
          /\ n < Len(GatewayLog) => Succeeded(n)
          /\ ~Succeeded(n) => main.pc = "failed"
    /\ \A p \in Procs : \A i \in 1..Len(cmdlog[p]) : ~IsGatewayCmd(cmdlog[p][i])
    /\ main.pc \in {"serving", "shutdown", "cleanup", "sweep", "exited"} =>
          /\ Len(GatewayLog) = Len(GatewayCmds(host))
          /\ \A n \in 1..Len(GatewayLog) : Succeeded(n)
    /\ main.pc = "preflight" => GatewayLog = <<>>

\* after the gateway mode, failed or not, the process runs no command on
\* the forwarding setting or on iptables; a failed startup runs nothing more
C33_NothingUndone ==
    /\ main.pc \notin {"preflight", "gateway"} => GatewayLog' = GatewayLog
    /\ main.pc = "failed" => main' = main /\ kern' = kern /\ cmdlog' = cmdlog

\* C33: the gateway mode is an ordered sequence that stops at the first
\* failure (forwarding, default route, NAT rule, two FORWARD rules, ufw
\* when asked for); a failure fails the startup and leaves what the
\* earlier steps did; neither the failed startup nor the graceful
\* shutdown runs a command that removes the forwarding setting or a rule.
C33_GatewaySequence == []C33_Sequence /\ [][C33_NothingUndone]_vars

\* the startup failed at the first FORWARD rule, after the forwarding
\* setting and the NAT rule were applied
C33_Witness ==
    /\ main.pc = "failed"
    /\ Len(GatewayLog) = 4
    /\ GatewayLog[4].cmd = <<"iptables", "-A", "FORWARD", "-o", "eth0", "-j", "ACCEPT">>
    /\ GatewayLog[4].out # ""
    /\ Succeeded(1) /\ Succeeded(3)

\* ---------------------------------------------------------------------
\* The endpoints built on tcset and tcdel (V2)
\* tcset and tcdel are programs of the tcconfig package: what they do to
\* the kernel is not modelled; their exit status and their combined
\* output are inputs
\* ---------------------------------------------------------------------

\* a variant of strings.Count that stops at the first occurrence
StringsCount_First(s, substr) == IF Contains(s, substr) THEN 1 ELSE 0

\* strings.Count: the number of non-overlapping occurrences of substr in s
RECURSIVE StringsCount(_, _)
StringsCount(s, substr) ==
    IF Len(s) < Len(substr) THEN 0
    ELSE IF SubSeq(s, 1, Len(substr)) = substr
    THEN 1 + StringsCount(SubSeq(s, Len(substr) + 1, Len(s)), substr)
    ELSE StringsCount(SubSeq(s, 2, Len(s)), substr)

\* the arguments Execute builds for tcset, up to the interface
TcsetArgs(v) ==
    LET filter(port, net, cport) ==
            IF v.IdentifyKey # "all" /\ v.IdentifyValue # ""
            THEN CASE v.IdentifyKey = "serverPort" -> <<port, v.IdentifyValue>>
                   [] v.IdentifyKey = "clientIp"   -> <<net, v.IdentifyValue>>
                   [] v.IdentifyKey = "clientPort" -> <<cport, v.IdentifyValue>>
                   [] OTHER                        -> <<>>
            ELSE <<>>
        direction ==
            CASE v.Direction = "outgoing" ->
                     <<"--direction", "outgoing", "--exclude-src-port", v.ApiPort>>
                     \o filter("--src-port", "--dst-network", "--dst-port")
              [] v.Direction = "incoming" ->
                     <<"--direction", "incoming", "--exclude-dst-port", v.ApiPort>>
                     \o filter("--dst-port", "--src-network", "--src-port")
              [] OTHER -> <<>>
        delay ==
            IF v.Delay = "" THEN <<>>
            ELSE <<"--delay", v.Delay \o "ms">>
                 \o (IF v.Jitter # "" THEN <<"--delay-distro", v.Jitter \o "ms">> ELSE <<>>)
                 \o (IF v.Jitter = "" /\ v.DelayDistro # ""
                     THEN <<"--delay-distribution", v.DelayDistro>> ELSE <<>>)
                 \o (IF v.Duplicate # "" THEN <<"--duplicate", v.Duplicate \o "%">> ELSE <<>>)
                 \o (IF v.Corrupt # "" THEN <<"--corrupt", v.Corrupt \o "%">> ELSE <<>>)
                 \o (IF v.Reorder # "" THEN <<"--reordering", v.Reorder \o "%">> ELSE <<>>)
    IN  <<"--overwrite", "--shaping-algo", "htb">>
        \o direction
        \o delay
        \o (IF v.Loss # "" THEN <<"--loss", v.Loss \o "%">> ELSE <<>>)
        \o (IF v.Rate # "" THEN <<"--rate", v.Rate \o "kbps">> ELSE <<>>)
        \o (IF v.PacketLimit # "" THEN <<"--packet-limit", v.PacketLimit>> ELSE <<>>)
        \o <<v.Iface>>

\* a variant of Execute for which any field of the request is a rule
V2Execute_AnyField(v, exit, out) ==
    LET none(e) == [exec |-> <<>>, exit |-> 0, out |-> "", err |-> e]
        ran(e) == [exec |-> << <<"tcset">> \o TcsetArgs(v) >>, exit |-> exit, out |-> out,
                   err |-> e]
        nnErrors == StringsCount(out, "ERROR")
        isIngressDel == Contains(out, "ingress") /\ Contains(out, "qdisc del")
        canIgnore == nnErrors = 1 /\ isIngressDel
    IN  IF v.Iface = "" THEN none("V2: 'iface' is required")
        ELSE IF v.Direction = "" THEN none("V2: 'direction' is required")
        ELSE IF isDarwin THEN none("")
        ELSE IF v.Direction = "incoming" /\ ~hasIFB
        THEN none("V2: 'ifb' module not loaded. 'incoming' rules will fail")
        ELSE IF /\ v.Delay = "" /\ v.Loss = "" /\ v.Rate = "" /\ v.PacketLimit = ""
                /\ v.Jitter = "" /\ v.DelayDistro = "" /\ v.Duplicate = ""
                /\ v.Corrupt = "" /\ v.Reorder = ""
        THEN none("")
        ELSE IF exit # 0
        THEN ran("V2: tcset: " \o (IF out = "" THEN "exit status 1" ELSE out))
        ELSE IF Len(out) > 0 /\ nnErrors > 0 /\ ~canIgnore THEN ran("V2: tcset, " \o out)
        ELSE ran("")

\* V2NetworkOptions.Execute, with the exit status and the output of tcset
\* should it be run: the commands executed and the error returned
V2Execute(v, exit, out) ==
    LET none(e) == [exec |-> <<>>, exit |-> 0, out |-> "", err |-> e]
        ran(e) == [exec |-> << <<"tcset">> \o TcsetArgs(v) >>, exit |-> exit, out |-> out,
                   err |-> e]
        hasNetemRules_ == v.Delay # "" \/ v.Loss # ""
        nnErrors == StringsCount(out, "ERROR")
        isIngressDel == Contains(out, "ingress") /\ Contains(out, "qdisc del")
        canIgnore == nnErrors = 1 /\ isIngressDel
    IN  IF v.Iface = "" THEN none("V2: 'iface' is required")
        ELSE IF v.Direction = "" THEN none("V2: 'direction' is required")
        ELSE IF isDarwin THEN none("")
        ELSE IF v.Direction = "incoming" /\ ~hasIFB
        THEN none("V2: 'ifb' module not loaded. 'incoming' rules will fail")
        ELSE IF ~hasNetemRules_ /\ v.Rate = "" /\ v.PacketLimit = "" THEN none("")
        ELSE IF exit # 0
        THEN ran("V2: tcset: " \o (IF out = "" THEN "exit status 1" ELSE out))
        ELSE IF Len(out) > 0 /\ nnErrors > 0 /\ ~canIgnore THEN ran("V2: tcset, " \o out)
        ELSE ran("")

\* handleTcSetupV2: Execute on the options of the query; 500 with its
\* error, 200 without
handleTcSetupV2(exit, out) ==
    /\ v2.op = "setup"
    /\ v2.status = 0
    /\ LET r == V2Execute(v2.opts, exit, out)
       IN  v2' = [v2 EXCEPT !.exec = r.exec, !.exit = r.exit, !.out = r.out, !.err = r.err,
                            !.status = IF r.err # "" THEN 500 ELSE 200]
    /\ UNCHANGED <<isDarwin, hasIFB, kern, ifbUp, op, opts, pc, idx, err, cmdlog,
                   kern0, last, faults, ctxDone, main, host, raw, inventory>>

\* handleTcResetV2: 400 without interface, 200 on Darwin, else `tcdel --all
\* iface`, whose result is judged as that of tcset
handleTcResetV2(exit, out) ==
    /\ v2.op = "reset"
    /\ v2.status = 0
    /\ LET iface == v2.opts.Iface
           args == <<"--all", iface>>
           nnErrors == StringsCount(out, "ERROR")
           isIngressDel == Contains(out, "ingress") /\ Contains(out, "qdisc del")
           canIgnore == nnErrors = 1 /\ isIngressDel
           ran(e) == [v2 EXCEPT !.exec = << <<"tcdel">> \o args >>, !.exit = exit,
                                !.out = out, !.err = e,
                                !.status = IF e # "" THEN 500 ELSE 200]
       IN  v2' = IF iface = ""
                 THEN [v2 EXCEPT !.err = "V2: 'iface' is required", !.status = 400]
                 ELSE IF isDarwin THEN [v2 EXCEPT !.status = 200]
                 ELSE IF exit # 0 THEN ran("V2: tcdel: exit status 1")
                 ELSE IF Len(out) > 0 /\ nnErrors > 0 /\ ~canIgnore
                 THEN ran("V2: tcdel, " \o out)
                 ELSE ran("")
    /\ UNCHANGED <<isDarwin, hasIFB, kern, ifbUp, op, opts, pc, idx, err, cmdlog,
                   kern0, last, faults, ctxDone, main, host, raw, inventory>>

\* the query parameters of the requests
V2Requests ==
    [Iface : {"", "eth0"}, Direction : {"", "outgoing", "incoming", "sideways"},
     Protocol : {"all"}, IdentifyKey : {"all", "clientPort"}, IdentifyValue : {"8080"},
     Delay : {"", "100"}, Jitter : {"", "10"}, DelayDistro : {"", "normal"},
     Loss : {"", "1"}, Duplicate : {"", "2"}, Reorder : {"", "3"}, Corrupt : {"", "4"},
     Rate : {"", "5000"}, PacketLimit : {"", "1000"}, ApiPort : {ApiPort}]

\* a request has arrived at one of the two endpoints
InitV2 ==
    /\ isDarwin \in BOOLEAN
    /\ hasIFB \in BOOLEAN
    /\ main = Serving
    /\ host = ServingHost(hasIFB)
    /\ kern = CleanKern
    /\ ifbUp = FALSE
    /\ op = [p \in Procs |-> "none"]
    /\ opts = [p \in Procs |-> NoOpts]
    /\ pc = [p \in Procs |-> "idle"]
    /\ idx = [p \in Procs |-> 0]
    /\ err = [p \in Procs |-> NoErr]
    /\ cmdlog = [p \in Procs |-> <<>>]
    /\ kern0 = [p \in Procs |-> CleanKern]
    /\ last = NoLast
    /\ faults = 0
    /\ ctxDone = [p \in Procs |-> FALSE]
    /\ raw = NoRaw
    /\ inventory = NoInventory
    /\ \E v \in V2Requests :
          v2 \in { [op |-> "setup", opts |-> v, exec |-> <<>>, exit |-> 0, out |-> "",
                    err |-> "", status |-> 0],
                   [op |-> "reset", opts |-> [Iface |-> v.Iface], exec |-> <<>>, exit |-> 0,
                    out |-> "", err |-> "", status |-> 0] }

\* the command, when run, exits with 0 or 1 and prints one of these
NextV2 ==
    \E exit \in {0, 1},
       out \in {"", "Error: Cannot find device", "[ERROR] failed to run",
                "[ERROR] qdisc del dev eth0 ingress", "[ERROR] ingress not found",
                "[ERROR] qdisc del dev eth0 root",
                "[ERROR] qdisc del dev eth0 ingress [ERROR] qdisc add"} :
        \/ handleTcSetupV2(exit, out)
        \/ handleTcResetV2(exit, out)

SpecV2 == InitV2 /\ [][NextV2]_vars

\* the flags of tcset given only with a delay
DelayOnlyFlags ==
    {"--delay-distro", "--delay-distribution", "--duplicate", "--corrupt", "--reordering"}

\* the tokens of the commands a setup has executed
SetupTokens == UNION { {v2.exec[i][k] : k \in 1..Len(v2.exec[i])} : i \in 1..Len(v2.exec) }

\* C34: a call of the tcset-based Execute runs at most one command, a
\* `tcset --overwrite` on the interface of the request; it runs none when
\* the interface or the direction is empty, when the direction is incoming
\* and the ifb capability is missing, or when none of delay, loss, rate and
\* packet limit is set; jitter, distribution, duplicate, corrupt and
\* reorder are passed to tcset only together with a delay.
C34_AtMostOneTcset ==
    (v2.op = "setup" /\ v2.status # 0) =>
        LET v == v2.opts
        IN  /\ Len(v2.exec) <= 1
            /\ \A i \in 1..Len(v2.exec) :
                  /\ v2.exec[i][1] = "tcset"
                  /\ v2.exec[i][2] = "--overwrite"
                  /\ v2.exec[i][Len(v2.exec[i])] = v.Iface
            /\ (\/ v.Iface = ""
                \/ v.Direction = ""
                \/ v.Direction = "incoming" /\ ~hasIFB
                \/ v.Delay = "" /\ v.Loss = "" /\ v.Rate = "" /\ v.PacketLimit = "")
               => v2.exec = <<>>
            /\ SetupTokens \cap DelayOnlyFlags # {} =>
                  v.Delay # "" /\ "--delay" \in SetupTokens

\* a request with jitter and duplicate but none of delay, loss, rate and
\* packet limit was answered 200 without a command
C34_Witness ==
    /\ v2.op = "setup"
    /\ v2.status = 200
    /\ ~isDarwin
    /\ v2.opts.Iface = "eth0" /\ v2.opts.Direction = "outgoing"
    /\ v2.opts.Jitter # "" /\ v2.opts.Duplicate # ""
    /\ v2.opts.Delay = "" /\ v2.opts.Loss = "" /\ v2.opts.Rate = "" /\ v2.opts.PacketLimit = ""
    /\ v2.exec = <<>>

\* the positions of s at which w begins
Occurrences(s, w) == {i \in 1..(Len(s) - Len(w) + 1) : SubSeq(s, i, i + Len(w) - 1) = w}

\* the request was answered with an error
V2Failure == v2.err # "" /\ v2.status = 500

\* C35: a tcset or tcdel that exits with status zero is reported as a
\* failure when its output contains ERROR, unless the output contains
\* exactly one ERROR and both `ingress` and `qdisc del`; a non-zero exit
\* status is a failure whatever the output.
C35_OutputErrorRule ==
    (v2.status # 0 /\ v2.exec # <<>>) =>
        LET n == Cardinality(Occurrences(v2.out, "ERROR"))
            excepted == n = 1 /\ Contains(v2.out, "ingress") /\ Contains(v2.out, "qdisc del")
        IN  /\ v2.exit # 0 => V2Failure
            /\ v2.exit = 0 => (V2Failure <=> (n > 0 /\ ~excepted))
            /\ ~V2Failure => v2.err = "" /\ v2.status = 200

\* a tcdel that exited with zero and printed one ERROR about the deletion
\* of the ingress qdisc was answered 200
C35_Witness ==
    /\ v2.op = "reset"
    /\ v2.exec = << <<"tcdel", "--all", "eth0">> >>
    /\ v2.exit = 0
    /\ v2.out = "[ERROR] qdisc del dev eth0 ingress"
    /\ v2.status = 200

====
